---- MODULE Spec2Model ----
(***************************************************************************)
(* A model of the GitLab-Agent backend's command pipeline:                 *)
(*   - CommandAgent._parse_bot_command and CommandAgent.run                *)
(*     (app/agents/command_agent.py),                                      *)
(*   - CommandInterface._format_diff_with_line_numbers,                    *)
(*     CommandInterface._gether_gitlab_diff, _extract_issue_iids and       *)
(*     gether_gitlab_data (app/agents/commands/command_interface.py),      *)
(*   - ReviewCommand.run, ReviewCommand._convert_to_markdown and its       *)
(*     _get_snippet (app/agents/commands/review.py), with emphasize_header,*)
(*     get_line_link and fetch_file (app/agents/utils.py).                 *)
(*   - handle_note_event and handle_merge_request_event                    *)
(*     (app/services/event_handlers.py) and the webhook route              *)
(*     (app/api/routes/webhooks.py),                                       *)
(*   - SmartAgent.run (app/agents/smart_agent.py),                         *)
(*   - the prompts and output models of the review and describe commands   *)
(*     (app/prompts, app/agents/commands),                                 *)
(*   - refresh_token (app/api/routes/auth.py),                             *)
(*   - CacheService (app/services/cache_service.py).                       *)
(* A Python str is modelled as a sequence of one-character strings, so     *)
(* that startswith, slicing, len, strip, split and join are computed.      *)
(***************************************************************************)
EXTENDS Integers, Sequences, FiniteSets, TLC

VARIABLES
    \* ---- CommandAgent.run / _parse_bot_command
    text,          \* the input_command argument
    ppc,           \* position inside run: "call", "loop", "parsed", "done", "raised"
    tokens,        \* the list shlex.split returned
    command,       \* tokens[0], the parser's local
    command_name,  \* run's local, bound when the parser returns
    flags,         \* dict: key -> [isTrue, str]
    args,          \* list of positional arguments
    iters,         \* the iterator objects created so far: each one's remaining items
    it,            \* the iterator object the name `it` is bound to
    for_it,        \* the iterator object the for statement draws from
    error,         \* the exception that left run, or NoError
    handler,       \* the command class that was instantiated, or "none"
    gitlab_calls,  \* GitLab API calls made by the handler
    llm_calls,     \* LLM calls made by the handler
    \* ---- CommandInterface._format_diff_with_line_numbers
    diff_text,        \* the diff_text argument
    fpc,              \* "idle", "call", "loop", "returned"
    lines,            \* diff_text.splitlines()
    line_idx,         \* how many of them the for statement has drawn
    formatted_lines,  \* the list being built
    old_line_no,      \* None or the next old-file line number
    new_line_no,      \* None or the next new-file line number
    formatted,        \* the returned string
    \* ---- CommandInterface._gether_gitlab_diff
    mr_diffs,             \* the file diff entries of the latest diff version
    max_tokens_per_diff,  \* settings.max_tokens_per_diff
    gpc,                  \* "idle", "call", "loop", "returned"
    diff_no,              \* how many entries the for statement has drawn
    context_lines,        \* the list being built
    ignored_files,        \* the paths of the skipped files
    logged,               \* "", or the level of the message logged on the way out
    context,              \* the returned string
    \* ---- CommandInterface.gether_gitlab_data
    mr_title,        \* the merge request's title in GitLab
    mr_description,  \* its description, a str or None
    mr_changes,      \* the file diff entries of its latest diff version
    issues,          \* for each issue number, how project.issues.get(number) ends
    dpc,             \* "idle", "call", "diff", "issues", "returned", "raised"
    data,            \* the dict being filled
    issue_ids,       \* the list _extract_issue_iids returned
    issue_no,        \* how many of them the for statement has drawn
    related_issues,  \* the list being built
    data_logged,     \* what was logged, in order
    data_error,      \* the exception that left gether_gitlab_data, or NoError
    \* ---- ReviewCommand.run
    review_flags,     \* the flags argument: name -> True or a str
    gitlab_related,   \* whether gether_gitlab_data found related issues
    rpc,              \* "idle", "call", "agent", "answered", "returned", "raised"
    input_data,       \* the ReviewInput
    model_fields,     \* the names of the fields of ReviewOutput, in their order
    llm_output,       \* what the LLM supplied last: field -> value
    output_data,      \* the validated ReviewOutput, dumped: a list of (key, value)
    attempts,         \* how many answers the agent has asked for
    review_markdown,  \* the returned markdown
    review_error,     \* the exception that left run, or NoError
    \* ---- ReviewCommand._convert_to_markdown
    raw_output,      \* the dumped output_data: whether it has a "review" key, and the items
    repo_up,         \* whether the repository's files can be fetched during the call
    mpc,             \* "idle", "call", "loop", "returned"
    review_payload,  \* the items the for statement draws from, in dict order
    project_path,    \* path_with_namespace, or "" when the project fetch failed
    payload_no,      \* how many items the for statement has drawn
    added,           \* what each pass of the loop added to markdown_text
    markdown_text,   \* the text being built, then returned
    \* ---- ReviewCommand._convert_to_markdown._get_snippet
    file_path,      \* the file_path argument
    snip_start,     \* the start argument
    snip_end,       \* the end argument
    repo_file,      \* the file's content on the branch, or None when it cannot be fetched
    spc,            \* "idle", "call", "loop", "returned"
    file_lines,     \* content.splitlines()
    idx,            \* the loop variable of line 217
    end_idx,        \* where the range of line 217 ends
    reads,          \* the indexes of file_lines read so far
    snippet_lines,  \* the list being built
    snippet,        \* the returned str
    event,          \* which handler of event_handlers.py runs: "none", "note", "merge_request"
    noteable_type,  \* object_attributes.noteable_type of a note payload
    note_content,   \* object_attributes.note of a note payload
    notes,          \* the bodies of the discussion's notes, oldest first
    action,         \* object_attributes.action of a merge-request payload, or None
    changes,        \* the "changes" entry of a merge-request payload
    hpc,            \* "idle", "start", "waiting", "smart", "finally", "reply", "returned", "raised"
    is_command,     \* line 150
    input_command,  \* the command text of lines 173-178
    history,        \* the message history of lines 186-203
    wait_note,      \* "none", "exists", "deleted"
    agent_calls,    \* the agent runs the handler has started
    reply,          \* the reply (handle_note_event) or response (handle_merge_request_event)
    replies,        \* the bodies of the final notes the handler has created
    gitlab_writes,  \* the GitLab write requests made, in order
    raised,         \* the exception the handler let through, or None
    bot_user_id,    \* the path parameter of POST /webhooks/{bot_user_id}
    gitlab_token,   \* the X-Gitlab-Token header, or None
    event_type,     \* the X-Gitlab-Event header, "" when absent
    request_body,   \* "invalid" (not JSON) or the kind of payload the body holds
    wpc,            \* "idle", "start", "dispatch", "done"
    status_code,    \* the status of the response sent, 0 before it
    responses,      \* how many responses the delivery has produced
    handler_calls,  \* the calls of event handlers made, in order
    message_history, \* the message_history argument of SmartAgent.run, or None
    run_pc,         \* "idle", "start", "started", "ran", "returned", "raised"
    request_type,   \* line 193
    history_id,     \* the id of the history record of this run, or None
    history_record, \* the record in mr_agent_history, or NoRecord
    status_log,     \* the values the record's status has had, in order
    agent_messages, \* the message_history the pydantic-ai agent is run with
    caught,         \* str(e) of the exception caught at line 244, or None
    update_failed,  \* an update_one of this run raised
    run_output,     \* what run returned, or None
    run_raised,     \* str(e) of the exception run raised, or None
    prompt_command, \* "none", "review" or "describe": the command being run
    prompt_input,   \* the flags of its ReviewInput or DescribeInput
    tpc,            \* "idle", "start", "rendered", "built"
    rendered,       \* the declarations of the rendered system prompt
    output_model,   \* the fields of the output model given to create_model
    refresh_sessions, \* the rows of the refresh_sessions table
    next_id,        \* the next autoincrement id of the table
    rf_in,          \* per request, the refresh token it presents
    qpc,            \* per request: "idle", "start", "loop", "done"
    user_session,   \* per request, the row loaded at line 42, or NoRow
    tries,          \* per request, the iterations of the loop of line 44 begun
    rf_out,         \* per request, the response: status and new refresh token
    cache_rows,     \* the rows of the cache table: key, value, expires_at
    cache_now,      \* what NOW() returns
    cache_op,       \* the last CacheService call: name, key, result, exception
    last_set        \* per key, the arguments and time of the last set not deleted since

parseVars == <<text, ppc, tokens, command, command_name, flags, args, iters, it, for_it, error,
               handler, gitlab_calls, llm_calls>>

fmtVars == <<diff_text, fpc, lines, line_idx, formatted_lines, old_line_no,
             new_line_no, formatted>>

gatherVars == <<mr_diffs, max_tokens_per_diff, gpc, diff_no, context_lines, ignored_files,
                logged, context>>

dataVars == <<mr_title, mr_description, mr_changes, issues, dpc, data, issue_ids, issue_no,
              related_issues, data_logged, data_error>>

reviewVars == <<review_flags, gitlab_related, rpc, input_data, model_fields, llm_output,
                output_data, attempts, review_markdown, review_error>>

mdVars == <<raw_output, repo_up, mpc, review_payload, project_path, payload_no, added,
            markdown_text>>

snipVars == <<file_path, snip_start, snip_end, repo_file, spc, file_lines, idx, end_idx, reads,
              snippet_lines, snippet>>

handlerVars == <<event, noteable_type, note_content, notes, action, changes, hpc, is_command,
                 input_command, history, wait_note, agent_calls, reply, replies,
                 gitlab_writes, raised>>

webhookVars == <<bot_user_id, gitlab_token, event_type, request_body, wpc, status_code,
                 responses, handler_calls>>

runVars == <<message_history, run_pc, request_type, history_id, history_record, status_log,
             agent_messages, caught, update_failed, run_output, run_raised>>

promptVars == <<prompt_command, prompt_input, tpc, rendered, output_model>>

refreshVars == <<refresh_sessions, next_id, rf_in, qpc, user_session, tries, rf_out>>

cacheVars == <<cache_rows, cache_now, cache_op, last_set>>

vars == <<parseVars, fmtVars, gatherVars, dataVars, reviewVars, mdVars, snipVars, handlerVars,
    webhookVars, runVars, promptVars, refreshVars, cacheVars>>

\* for each function, the variables of the other functions
notParseVars == <<fmtVars, gatherVars, dataVars, reviewVars, mdVars, snipVars, handlerVars,
    webhookVars, runVars, promptVars, refreshVars, cacheVars>>
notFmtVars == <<parseVars, gatherVars, dataVars, reviewVars, mdVars, snipVars, handlerVars,
    webhookVars, runVars, promptVars, refreshVars, cacheVars>>
notGatherVars == <<parseVars, fmtVars, dataVars, reviewVars, mdVars, snipVars, handlerVars,
    webhookVars, runVars, promptVars, refreshVars, cacheVars>>
notDataVars == <<parseVars, fmtVars, gatherVars, reviewVars, mdVars, snipVars, handlerVars,
    webhookVars, runVars, promptVars, refreshVars, cacheVars>>
notReviewVars == <<parseVars, fmtVars, gatherVars, dataVars, mdVars, snipVars, handlerVars,
    webhookVars, runVars, promptVars, refreshVars, cacheVars>>
notMdVars == <<parseVars, fmtVars, gatherVars, dataVars, reviewVars, snipVars, handlerVars,
    webhookVars, runVars, promptVars, refreshVars, cacheVars>>
notSnipVars == <<parseVars, fmtVars, gatherVars, dataVars, reviewVars, mdVars, handlerVars,
    webhookVars, runVars, promptVars, refreshVars, cacheVars>>
notHandlerVars == <<parseVars, fmtVars, gatherVars, dataVars, reviewVars, mdVars, snipVars,
    webhookVars, runVars, promptVars, refreshVars, cacheVars>>
notWebhookVars == <<parseVars, fmtVars, gatherVars, dataVars, reviewVars, mdVars, snipVars,
    handlerVars, runVars, promptVars, refreshVars, cacheVars>>
notRunVars == <<parseVars, fmtVars, gatherVars, dataVars, reviewVars, mdVars, snipVars,
    handlerVars, webhookVars, promptVars, refreshVars, cacheVars>>
notPromptVars == <<parseVars, fmtVars, gatherVars, dataVars, reviewVars, mdVars, snipVars,
    handlerVars, webhookVars, runVars, refreshVars, cacheVars>>
notRefreshVars == <<parseVars, fmtVars, gatherVars, dataVars, reviewVars, mdVars, snipVars,
    handlerVars, webhookVars, runVars, promptVars, cacheVars>>
notCacheVars == <<parseVars, fmtVars, gatherVars, dataVars, reviewVars, mdVars, snipVars,
    handlerVars, webhookVars, runVars, promptVars, refreshVars>>

----------------------------------------------------------------------------
(* Python str helpers *)

\* s.startswith(p)
StartsWith(s, p) == Len(s) >= Len(p) /\ SubSeq(s, 1, Len(p)) = p

\* s[n:]
DropPrefix(s, n) == SubSeq(s, n + 1, Len(s))

RECURSIVE Concat(_)
\* "".join(parts)
Concat(parts) == IF parts = <<>> THEN <<>> ELSE Head(parts) \o Concat(Tail(parts))

RECURSIVE Join(_, _)
\* sep.join(parts)
Join(sep, parts) ==
    IF parts = <<>> THEN <<>>
    ELSE IF Len(parts) = 1 THEN Head(parts)
    ELSE Head(parts) \o sep \o Join(sep, Tail(parts))

Range(s) == {s[i] : i \in 1..Len(s)}

\* Python's None where the other values are line numbers (never negative)
None == -1

RECURSIVE FoldChars(_, _, _, _, _)
\* the state after Step has read t[lo], ..., t[hi] in this order, from state s
FoldChars(Step(_, _), s, t, lo, hi) ==
    IF lo > hi THEN s
    ELSE IF lo = hi THEN Step(s, t[lo])
    ELSE CHOOSE x \in { FoldChars(Step, m, t, ((lo + hi) \div 2) + 1, hi) :
                           m \in {FoldChars(Step, s, t, lo, (lo + hi) \div 2)} } : TRUE

RECURSIVE SeqsUpTo(_, _)
\* all sequences over S of length 0..n
SeqsUpTo(S, n) ==
    IF n = 0 THEN {<<>>}
    ELSE SeqsUpTo(S, n - 1) \cup
         {Append(q, x) : q \in {r \in SeqsUpTo(S, n - 1) : Len(r) = n - 1}, x \in S}

----------------------------------------------------------------------------
(* shlex.split(text): the POSIX-mode lexer with whitespace_split, no       *)
(* comment characters.                                                     *)

ShlexWhitespace == {" ", "\t", "\r", "\n"}
ShlexQuotes == {"\"", "'"}
ShlexEscape == {"\\"}
ShlexEscapedQuotes == {"\""}

LexInit == [state |-> " ", esc |-> " ", token |-> <<>>, quoted |-> FALSE, out |-> <<>>]

\* one character read by shlex.read_token
LexStep(s, c) ==
    IF s.state = " " THEN
        IF c \in ShlexWhitespace THEN s
        ELSE IF c \in ShlexEscape THEN [s EXCEPT !.esc = "a", !.state = c]
        ELSE IF c \in ShlexQuotes THEN [s EXCEPT !.state = c]
        ELSE [s EXCEPT !.token = <<c>>, !.state = "a"]
    ELSE IF s.state \in ShlexQuotes THEN
        IF c = s.state THEN [s EXCEPT !.quoted = TRUE, !.state = "a"]
        ELSE IF c \in ShlexEscape /\ s.state \in ShlexEscapedQuotes
            THEN [s EXCEPT !.quoted = TRUE, !.esc = s.state, !.state = c]
        ELSE [s EXCEPT !.quoted = TRUE, !.token = Append(@, c)]
    ELSE IF s.state \in ShlexEscape THEN
        LET keep == s.esc \in ShlexQuotes /\ c # s.state /\ c # s.esc
            tok  == IF keep THEN Append(s.token, s.state) ELSE s.token
        IN  [s EXCEPT !.token = Append(tok, c), !.state = s.esc]
    ELSE \* state "a": inside a word
        IF c \in ShlexWhitespace THEN
            IF s.token # <<>> \/ s.quoted
            THEN [s EXCEPT !.state = " ", !.out = Append(@, s.token),
                           !.token = <<>>, !.quoted = FALSE]
            ELSE [s EXCEPT !.state = " "]
        ELSE IF c \in ShlexQuotes THEN [s EXCEPT !.state = c]
        ELSE IF c \in ShlexEscape THEN [s EXCEPT !.esc = "a", !.state = c]
        ELSE [s EXCEPT !.token = Append(@, c)]

\* the lexer state after reading all of t
LexRun(s, t) == FoldChars(LexStep, s, t, 1, Len(t))

\* shlex.split: [ok |-> FALSE] stands for the ValueError ("No closing
\* quotation", "No escaped character") raised at the end of the input.
ShlexSplit(t) ==
    LET s == LexRun(LexInit, t)
    IN  IF s.state \in ShlexQuotes \cup ShlexEscape
        THEN [ok |-> FALSE, tokens |-> <<>>]
        ELSE [ok |-> TRUE,
              tokens |-> IF s.token # <<>> \/ s.quoted
                         THEN Append(s.out, s.token) ELSE s.out]

----------------------------------------------------------------------------
(* Literals *)

DashDash == <<"-", "-">>
SP == <<" ">>

S_help == <<"h", "e", "l", "p">>
S_review == <<"r", "e", "v", "i", "e", "w">>
S_describe == <<"d", "e", "s", "c", "r", "i", "b", "e">>
S_suggest == <<"s", "u", "g", "g", "e", "s", "t">>
S_add_docs == <<"a", "d", "d", "_", "d", "o", "c", "s">>

S_enable_diagram == <<"e", "n", "a", "b", "l", "e", "_", "d", "i", "a", "g", "r", "a", "m">>
S_enable_files == <<"e", "n", "a", "b", "l", "e", "_", "f", "i", "l", "e", "s">>
S_extra == <<"e", "x", "t", "r", "a">>
S_fix == <<"f", "i", "x">>
S_bug == <<"b", "u", "g">>
QUOTE == <<"\"">>

\* CommandAgent.commands: command name -> command class
CommandNames == {S_help, S_review, S_describe, S_suggest, S_add_docs}

CommandClass(name) ==
    CASE name = S_help -> "HelpCommand"
      [] name = S_review -> "ReviewCommand"
      [] name = S_describe -> "DescribeCommand"
      [] name = S_suggest -> "SuggestCommand"
      [] name = S_add_docs -> "AddDocsCommand"

----------------------------------------------------------------------------
(* The inputs: a command word (or none) followed by up to MaxWords words,  *)
(* written with single spaces between them.                                *)

MaxWords == 3

CommandWords ==
    CommandNames \cup
    { <<"H", "e", "l", "p">>,                      \* differs in case only
      <<"h", "e", "l", "p", "s">>,
      <<"r", "e", "v", "i", "e">> }

Words ==
    { DashDash \o S_enable_diagram,                \* --enable_diagram
      DashDash \o S_enable_files,                  \* --enable_files
      DashDash,                                    \* --
      S_extra,                                     \* extra
      QUOTE \o S_fix \o SP \o S_bug \o QUOTE,      \* "fix bug"
      QUOTE \o S_fix }                             \* "fix     (an open quote)

InputTexts ==
    { Join(SP, w) : w \in SeqsUpTo(Words, MaxWords) } \cup
    { Join(SP, <<c>> \o w) : c \in CommandWords, w \in SeqsUpTo(Words, MaxWords) }

----------------------------------------------------------------------------
(* CommandAgent._parse_bot_command *)

IsFlag(token) == StartsWith(token, DashDash)
FlagKey(token) == DropPrefix(token, 2)

FlagTrue == [isTrue |-> TRUE, str |-> <<>>]
FlagStr(s) == [isTrue |-> FALSE, str |-> s]

\* flags[key] = value
DictSet(d, key, value) ==
    [k \in DOMAIN d \cup {key} |-> IF k = key THEN value ELSE d[k]]

EmptyDict == [k \in {} |-> FlagTrue]

NoError == [type |-> "none", msg |-> "", name |-> <<>>]
CommandParseError(m, n) == [type |-> "CommandParseError", msg |-> m, name |-> n]
PyTypeError == [type |-> "TypeError", msg |-> "", name |-> <<>>]
LlmError == [type |-> "Exception", msg |-> "llm", name |-> <<>>]

\* run's command_name before and after line 71
Unbound == [set |-> FALSE, val |-> <<>>]
Bound(v) == [set |-> TRUE, val |-> v]

\* raise exc out of run
Raise(exc) ==
    /\ ppc' = "raised"
    /\ error' = exc

\* next(i): the item drawn from iterator object i and the iterators afterwards
IterNext(i) == [item |-> Head(iters[i]), iters |-> [iters EXCEPT ![i] = Tail(@)]]

\* no call of CommandAgent.run is in progress
ParseIdle ==
    /\ text = <<>>
    /\ ppc = "idle"
    /\ tokens = <<>>
    /\ command = <<>>
    /\ command_name = Unbound
    /\ flags = EmptyDict
    /\ args = <<>>
    /\ iters = <<>>
    /\ it = 0
    /\ for_it = 0
    /\ error = NoError
    /\ handler = "none"
    /\ gitlab_calls = 0
    /\ llm_calls = 0

\* no call of _format_diff_with_line_numbers is in progress
FmtIdle ==
    /\ diff_text = <<>>
    /\ fpc = "idle"
    /\ lines = <<>>
    /\ line_idx = 0
    /\ formatted_lines = <<>>
    /\ old_line_no = None
    /\ new_line_no = None
    /\ formatted = <<>>

GatherIdle ==
    /\ mr_diffs = <<>>
    /\ max_tokens_per_diff = 0
    /\ gpc = "idle"
    /\ diff_no = 0
    /\ context_lines = <<>>
    /\ ignored_files = <<>>
    /\ logged = ""
    /\ context = <<>>

\* an Optional[str]: None, or a str
NoneStr == [some |-> FALSE, val |-> <<>>]
Some(v) == [some |-> TRUE, val |-> v]

\* lines 66-72
DefaultData ==
    [title |-> <<>>, branch |-> <<>>, diff |-> <<>>, description |-> NoneStr,
     related_issues |-> <<>>]

DataIdle ==
    /\ mr_title = <<>>
    /\ mr_description = NoneStr
    /\ mr_changes = <<>>
    /\ issues = <<>>
    /\ dpc = "idle"
    /\ data = DefaultData
    /\ issue_ids = <<>>
    /\ issue_no = 0
    /\ related_issues = <<>>
    /\ data_logged = <<>>
    /\ data_error = NoError

\* review.py lines 29-33, before the flags are read
NoInput ==
    [require_estimate_effort_to_review |-> FALSE, require_score |-> FALSE,
     require_tests |-> FALSE, require_security_review |-> FALSE,
     require_prompt_suggestion |-> FALSE, related_issues |-> FALSE]

ReviewIdle ==
    /\ review_flags = EmptyDict
    /\ gitlab_related = FALSE
    /\ rpc = "idle"
    /\ input_data = NoInput
    /\ model_fields = <<>>
    /\ llm_output = <<>>
    /\ output_data = <<>>
    /\ attempts = 0
    /\ review_markdown = <<>>
    /\ review_error = NoError

\* for each function, the other functions are not running
MdIdle ==
    /\ raw_output = [review |-> NoneStr, items |-> <<>>]
    /\ repo_up = FALSE
    /\ mpc = "idle"
    /\ review_payload = <<>>
    /\ project_path = <<>>
    /\ payload_no = 0
    /\ added = <<>>
    /\ markdown_text = <<>>

SnipIdle ==
    /\ file_path = <<>>
    /\ snip_start = 0
    /\ snip_end = 0
    /\ repo_file = NoneStr
    /\ spc = "idle"
    /\ file_lines = <<>>
    /\ idx = 0
    /\ end_idx = 0
    /\ reads = {}
    /\ snippet_lines = <<>>
    /\ snippet = <<>>

\* a merge-request payload without "changes", and changes without "reviewers"
NoReviewers == [t |-> "none", previous |-> <<>>, current |-> <<>>, items |-> <<>>]
NoChanges == [empty |-> TRUE, reviewers |-> NoReviewers]

HandlerIdle ==
    /\ event = "none"
    /\ noteable_type = <<>>
    /\ note_content = <<>>
    /\ notes = <<>>
    /\ action = NoneStr
    /\ changes = NoChanges
    /\ hpc = "idle"
    /\ is_command = FALSE
    /\ input_command = <<>>
    /\ history = <<>>
    /\ wait_note = "none"
    /\ agent_calls = <<>>
    /\ reply = NoneStr
    /\ replies = <<>>
    /\ gitlab_writes = <<>>
    /\ raised = ""

WebhookIdle ==
    /\ bot_user_id = 0
    /\ gitlab_token = NoneStr
    /\ event_type = ""
    /\ request_body = ""
    /\ wpc = "idle"
    /\ status_code = 0
    /\ responses = 0
    /\ handler_calls = <<>>

\* no document in the mr_agent_history collection
NoRecord == [exists |-> FALSE, status |-> "", error_message |-> NoneStr]

RunIdle ==
    /\ message_history = NoneStr
    /\ run_pc = "idle"
    /\ request_type = ""
    /\ history_id = None
    /\ history_record = NoRecord
    /\ status_log = <<>>
    /\ agent_messages = <<>>
    /\ caught = NoneStr
    /\ update_failed = FALSE
    /\ run_output = NoneStr
    /\ run_raised = NoneStr

\* the flags of a ReviewInput or DescribeInput that switch output fields
PromptFlags ==
    {"related_issues", "require_estimate_effort_to_review", "require_score", "require_tests",
     "require_security_review", "require_prompt_suggestion", "enable_diagram",
     "enable_files", "enable_file_summary"}
NoPromptInput == [f \in PromptFlags |-> FALSE]

PromptIdle ==
    /\ prompt_command = "none"
    /\ prompt_input = NoPromptInput
    /\ tpc = "idle"
    /\ rendered = <<>>
    /\ output_model = <<>>

RefreshIdle ==
    /\ refresh_sessions = {}
    /\ next_id = 0
    /\ rf_in = <<>>
    /\ qpc = <<>>
    /\ user_session = <<>>
    /\ tries = <<>>
    /\ rf_out = <<>>

\* no CacheService call made yet
NoCall == [op |-> "none", key |-> "", at |-> 0, result |-> NoneStr, raised |-> ""]

CacheIdle ==
    /\ cache_rows = {}
    /\ cache_now = 0
    /\ cache_op = NoCall
    /\ last_set = <<>>

NotParseIdle == FmtIdle /\ GatherIdle /\ DataIdle /\ ReviewIdle /\ MdIdle /\ SnipIdle /\
    HandlerIdle /\ WebhookIdle /\ RunIdle /\ PromptIdle /\ RefreshIdle /\ CacheIdle
NotFmtIdle == ParseIdle /\ GatherIdle /\ DataIdle /\ ReviewIdle /\ MdIdle /\ SnipIdle /\
    HandlerIdle /\ WebhookIdle /\ RunIdle /\ PromptIdle /\ RefreshIdle /\ CacheIdle
NotGatherIdle == ParseIdle /\ FmtIdle /\ DataIdle /\ ReviewIdle /\ MdIdle /\ SnipIdle /\
    HandlerIdle /\ WebhookIdle /\ RunIdle /\ PromptIdle /\ RefreshIdle /\ CacheIdle
NotDataIdle == ParseIdle /\ FmtIdle /\ GatherIdle /\ ReviewIdle /\ MdIdle /\ SnipIdle /\
    HandlerIdle /\ WebhookIdle /\ RunIdle /\ PromptIdle /\ RefreshIdle /\ CacheIdle
NotReviewIdle == ParseIdle /\ FmtIdle /\ GatherIdle /\ DataIdle /\ MdIdle /\ SnipIdle /\
    HandlerIdle /\ WebhookIdle /\ RunIdle /\ PromptIdle /\ RefreshIdle /\ CacheIdle
NotMdIdle == ParseIdle /\ FmtIdle /\ GatherIdle /\ DataIdle /\ ReviewIdle /\ SnipIdle /\
    HandlerIdle /\ WebhookIdle /\ RunIdle /\ PromptIdle /\ RefreshIdle /\ CacheIdle
NotSnipIdle == ParseIdle /\ FmtIdle /\ GatherIdle /\ DataIdle /\ ReviewIdle /\ MdIdle /\
    HandlerIdle /\ WebhookIdle /\ RunIdle /\ PromptIdle /\ RefreshIdle /\ CacheIdle
NotHandlerIdle == ParseIdle /\ FmtIdle /\ GatherIdle /\ DataIdle /\ ReviewIdle /\ MdIdle /\
    SnipIdle /\ WebhookIdle /\ RunIdle /\ PromptIdle /\ RefreshIdle /\ CacheIdle
NotWebhookIdle == ParseIdle /\ FmtIdle /\ GatherIdle /\ DataIdle /\ ReviewIdle /\ MdIdle /\
    SnipIdle /\ HandlerIdle /\ RunIdle /\ PromptIdle /\ RefreshIdle /\ CacheIdle
NotRunIdle == ParseIdle /\ FmtIdle /\ GatherIdle /\ DataIdle /\ ReviewIdle /\ MdIdle /\
    SnipIdle /\ HandlerIdle /\ WebhookIdle /\ PromptIdle /\ RefreshIdle /\ CacheIdle
NotPromptIdle == ParseIdle /\ FmtIdle /\ GatherIdle /\ DataIdle /\ ReviewIdle /\ MdIdle /\
    SnipIdle /\ HandlerIdle /\ WebhookIdle /\ RunIdle /\ RefreshIdle /\ CacheIdle
NotRefreshIdle == ParseIdle /\ FmtIdle /\ GatherIdle /\ DataIdle /\ ReviewIdle /\ MdIdle /\
    SnipIdle /\ HandlerIdle /\ WebhookIdle /\ RunIdle /\ PromptIdle /\ CacheIdle
NotCacheIdle == ParseIdle /\ FmtIdle /\ GatherIdle /\ DataIdle /\ ReviewIdle /\ MdIdle /\
    SnipIdle /\ HandlerIdle /\ WebhookIdle /\ RunIdle /\ PromptIdle /\ RefreshIdle

InitParse ==
    /\ text \in InputTexts
    /\ ppc = "call"
    /\ tokens = <<>>
    /\ command = <<>>
    /\ command_name = Unbound
    /\ flags = EmptyDict
    /\ args = <<>>
    /\ iters = <<>>
    /\ it = 0
    /\ for_it = 0
    /\ error = NoError
    /\ handler = "none"
    /\ gitlab_calls = 0
    /\ llm_calls = 0
    /\ NotParseIdle

\* lines 113-125: tokenize, reject the empty list, take the command name and
\* create the iterator the for statement will draw from
ParseTokenize ==
    /\ UNCHANGED notParseVars
    /\ ppc = "call"
    /\ LET r == ShlexSplit(text)
       IN  IF ~r.ok THEN
               /\ Raise(CommandParseError("Failed to parse command: ", <<>>))
               /\ UNCHANGED <<tokens, command, iters, it, for_it>>
           ELSE IF r.tokens = <<>> THEN
               /\ Raise(CommandParseError("Empty command.", <<>>))
               /\ tokens' = r.tokens
               /\ UNCHANGED <<command, iters, it, for_it>>
           ELSE
               /\ tokens' = r.tokens
               /\ command' = r.tokens[1]
               /\ iters' = <<Tail(r.tokens)>>
               /\ it' = 1
               /\ for_it' = 1
               /\ ppc' = "loop"
               /\ UNCHANGED error
    /\ UNCHANGED <<text, command_name, flags, args, handler, gitlab_calls, llm_calls>>

\* line 127 with lines 147-148: the for statement draws a token that is no flag
ParseArg ==
    /\ UNCHANGED notParseVars
    /\ ppc = "loop"
    /\ iters[for_it] # <<>>
    /\ LET n == IterNext(for_it)
       IN  /\ ~IsFlag(n.item)
           /\ args' = Append(args, n.item)
           /\ iters' = n.iters
    /\ UNCHANGED <<text, ppc, tokens, command, command_name, flags, it, for_it, error,
                   handler, gitlab_calls, llm_calls>>

\* lines 128-131: the bare flag "--"
ParseBareFlag ==
    /\ UNCHANGED notParseVars
    /\ ppc = "loop"
    /\ iters[for_it] # <<>>
    /\ LET n == IterNext(for_it)
       IN  /\ IsFlag(n.item)
           /\ FlagKey(n.item) = <<>>
           /\ iters' = n.iters
    /\ Raise(CommandParseError("Empty flag name '--' detected.", <<>>))
    /\ UNCHANGED <<text, tokens, command, command_name, flags, args, it, for_it,
                   handler, gitlab_calls, llm_calls>>

\* lines 134-139: next(it) raises StopIteration, the flag is True
ParseFlagLast ==
    /\ UNCHANGED notParseVars
    /\ ppc = "loop"
    /\ iters[for_it] # <<>>
    /\ LET n == IterNext(for_it)
       IN  /\ IsFlag(n.item)
           /\ FlagKey(n.item) # <<>>
           /\ n.iters[it] = <<>>
           /\ flags' = DictSet(flags, FlagKey(n.item), FlagTrue)
           /\ iters' = n.iters
    /\ UNCHANGED <<text, ppc, tokens, command, command_name, args, it, for_it, error,
                   handler, gitlab_calls, llm_calls>>

\* line 144: it = iter([nxt] + list(it)). list(it) drains the iterator object
\* `it` is bound to; the name is then bound to a new iterator object.
PushBack(its, i, nxt) ==
    [iters |-> Append([its EXCEPT ![i] = <<>>], <<nxt>> \o its[i]),
     it |-> Len(its) + 1]

\* lines 141-144: the token after the flag is a flag too
ParseFlagFlag ==
    /\ UNCHANGED notParseVars
    /\ ppc = "loop"
    /\ iters[for_it] # <<>>
    /\ LET n == IterNext(for_it)
       IN  /\ IsFlag(n.item)
           /\ FlagKey(n.item) # <<>>
           /\ n.iters[it] # <<>>
           /\ LET nxt == Head(n.iters[it])
                  m   == [n.iters EXCEPT ![it] = Tail(@)]
                  p   == PushBack(m, it, nxt)
              IN  /\ IsFlag(nxt)
                  /\ flags' = DictSet(flags, FlagKey(n.item), FlagTrue)
                  /\ iters' = p.iters
                  /\ it' = p.it
    /\ UNCHANGED <<text, ppc, tokens, command, command_name, args, for_it, error,
                   handler, gitlab_calls, llm_calls>>

\* lines 145-146: the token after the flag is its value
ParseFlagValue ==
    /\ UNCHANGED notParseVars
    /\ ppc = "loop"
    /\ iters[for_it] # <<>>
    /\ LET n == IterNext(for_it)
       IN  /\ IsFlag(n.item)
           /\ FlagKey(n.item) # <<>>
           /\ n.iters[it] # <<>>
           /\ LET nxt == Head(n.iters[it])
              IN  /\ ~IsFlag(nxt)
                  /\ flags' = DictSet(flags, FlagKey(n.item), FlagStr(nxt))
                  /\ iters' = [n.iters EXCEPT ![it] = Tail(@)]
    /\ UNCHANGED <<text, ppc, tokens, command, command_name, args, it, for_it, error,
                   handler, gitlab_calls, llm_calls>>

\* line 127 and line 150: the for statement's iterator is exhausted, the
\* function returns (command, flags, args)
ParseReturn ==
    /\ UNCHANGED notParseVars
    /\ ppc = "loop"
    /\ iters[for_it] = <<>>
    /\ ppc' = "parsed"
    /\ command_name' = Bound(command)
    /\ UNCHANGED <<text, tokens, command, flags, args, iters, it, for_it, error,
                   handler, gitlab_calls, llm_calls>>

----------------------------------------------------------------------------
(* CommandAgent.run, after the parse *)

\* line 73
IsKnownCommand(name) == name \in CommandNames

\* a dispatcher that answers an unknown name with the help text
RunUnknown_FallsBackToHelp ==
    /\ UNCHANGED notParseVars
    /\ ppc = "parsed"
    /\ ~IsKnownCommand(command_name.val)
    /\ handler' = "HelpCommand"
    /\ ppc' = "done"
    /\ UNCHANGED <<text, tokens, command, command_name, flags, args, iters, it, for_it,
                   error, gitlab_calls, llm_calls>>

\* lines 73-74
RunUnknown ==
    /\ UNCHANGED notParseVars
    /\ ppc = "parsed"
    /\ ~IsKnownCommand(command_name.val)
    /\ Raise(CommandParseError("Unknown command: ", command_name.val))
    /\ UNCHANGED <<text, tokens, command, command_name, flags, args, iters, it, for_it,
                   handler, gitlab_calls, llm_calls>>

\* lines 76-89 for HelpCommand: the instance is built, and its
\* run(self, flags, args) is called with four positional arguments
RunHelp ==
    /\ UNCHANGED notParseVars
    /\ ppc = "parsed"
    /\ IsKnownCommand(command_name.val)
    /\ CommandClass(command_name.val) = "HelpCommand"
    /\ handler' = "HelpCommand"
    /\ Raise(PyTypeError)
    /\ UNCHANGED <<text, tokens, command, command_name, flags, args, iters, it, for_it,
                   gitlab_calls, llm_calls>>

\* lines 76-82 for SuggestCommand, whose __init__(self) takes no keyword
RunSuggest ==
    /\ UNCHANGED notParseVars
    /\ ppc = "parsed"
    /\ IsKnownCommand(command_name.val)
    /\ CommandClass(command_name.val) = "SuggestCommand"
    /\ Raise(PyTypeError)
    /\ UNCHANGED <<text, tokens, command, command_name, flags, args, iters, it, for_it,
                   handler, gitlab_calls, llm_calls>>

\* lines 76-89 for AddDocsCommand, whose run body is `pass`
RunAddDocs ==
    /\ UNCHANGED notParseVars
    /\ ppc = "parsed"
    /\ IsKnownCommand(command_name.val)
    /\ CommandClass(command_name.val) = "AddDocsCommand"
    /\ handler' = "AddDocsCommand"
    /\ ppc' = "done"
    /\ UNCHANGED <<text, tokens, command, command_name, flags, args, iters, it, for_it, error,
                   gitlab_calls, llm_calls>>

\* lines 76-89 for ReviewCommand and DescribeCommand: gether_gitlab_data,
\* then agent.run, which returns or raises
RunLlmCommand ==
    /\ UNCHANGED notParseVars
    /\ ppc = "parsed"
    /\ IsKnownCommand(command_name.val)
    /\ CommandClass(command_name.val) \in {"ReviewCommand", "DescribeCommand"}
    /\ handler' = CommandClass(command_name.val)
    /\ gitlab_calls' = gitlab_calls + 1
    /\ llm_calls' = llm_calls + 1
    /\ \/ ppc' = "done" /\ UNCHANGED error
       \/ Raise(LlmError)
    /\ UNCHANGED <<text, tokens, command, command_name, flags, args, iters, it, for_it>>

NextParse ==
    \/ ParseTokenize
    \/ ParseArg
    \/ ParseBareFlag
    \/ ParseFlagLast
    \/ ParseFlagFlag
    \/ ParseFlagValue
    \/ ParseReturn
    \/ RunUnknown
    \/ RunHelp
    \/ RunSuggest
    \/ RunAddDocs
    \/ RunLlmCommand

SpecParse == InitParse /\ [][NextParse]_vars

----------------------------------------------------------------------------
(* More Python str helpers *)

NL == <<"\n">>
Digits == {"0", "1", "2", "3", "4", "5", "6", "7", "8", "9"}

\* the whitespace class \s of the re module, as far as one line can hold it
ReWhitespace == {" ", "\t", "\f"}

DigitValue(c) ==
    CASE c = "0" -> 0 [] c = "1" -> 1 [] c = "2" -> 2 [] c = "3" -> 3 [] c = "4" -> 4
      [] c = "5" -> 5 [] c = "6" -> 6 [] c = "7" -> 7 [] c = "8" -> 8 [] c = "9" -> 9

DigitChar(d) ==
    CASE d = 0 -> "0" [] d = 1 -> "1" [] d = 2 -> "2" [] d = 3 -> "3" [] d = 4 -> "4"
      [] d = 5 -> "5" [] d = 6 -> "6" [] d = 7 -> "7" [] d = 8 -> "8" [] d = 9 -> "9"

RECURSIVE StrToInt(_)
\* int(s) for a string of digits
StrToInt(s) ==
    IF s = <<>> THEN 0
    ELSE 10 * StrToInt(SubSeq(s, 1, Len(s) - 1)) + DigitValue(s[Len(s)])

RECURSIVE IntToStr(_)
\* f"{n}" for n >= 0
IntToStr(n) == IF n < 10 THEN <<DigitChar(n)>> ELSE Append(IntToStr(n \div 10), DigitChar(n % 10))

RECURSIVE Spaces(_)
Spaces(n) == IF n <= 0 THEN <<>> ELSE <<" ">> \o Spaces(n - 1)

\* s.rjust(width)
Rjust(s, width) == Spaces(width - Len(s)) \o s

\* one character read by str.splitlines: "\n", "\r" and "\r\n" end a line
SplitStep(s, c) ==
    IF c = "\n" /\ s.afterCR THEN [s EXCEPT !.afterCR = FALSE]
    ELSE IF c \in {"\n", "\r"}
        THEN [out |-> Append(s.out, s.cur), cur |-> <<>>, afterCR |-> (c = "\r")]
    ELSE [s EXCEPT !.cur = Append(@, c), !.afterCR = FALSE]

\* t.splitlines()
Splitlines(t) ==
    LET s == FoldChars(SplitStep, [out |-> <<>>, cur |-> <<>>, afterCR |-> FALSE], t, 1, Len(t))
    IN  IF s.cur # <<>> THEN Append(s.out, s.cur) ELSE s.out

----------------------------------------------------------------------------
(* CommandInterface._format_diff_with_line_numbers *)

(* re.search(r"@@\s+-([0-9]+)(?:,[0-9]+)?\s+\+([0-9]+)", line), line 219, as *)
(* the automaton of the pattern run over the line. q counts the pattern's  *)
(* parts matched so far:                                                   *)
(*   0 nothing, 1 "@", 2 "@@", 3 in the first \s+, 4 "-", 5 in group 1,     *)
(*   6 ",", 7 in the digits after ",", 8 in the second \s+, 9 "+",         *)
(*   10 in group 2 (the pattern has matched), 11 the match has ended.      *)
(* Every repetition is followed by a character outside its class, so the   *)
(* longest run is the only candidate; and no character but "@" can start a *)
(* match, so a failed attempt resumes at the failing character.            *)

ReInit == [q |-> 0, g1 |-> <<>>, g2 |-> <<>>]

\* the attempt fails at character c
ReRestart(c) == [q |-> IF c = "@" THEN 1 ELSE 0, g1 |-> <<>>, g2 |-> <<>>]

ReStep(s, c) ==
    CASE s.q = 0 -> ReRestart(c)
      [] s.q = 1 -> IF c = "@" THEN [s EXCEPT !.q = 2] ELSE ReRestart(c)
      [] s.q = 2 -> IF c \in ReWhitespace THEN [s EXCEPT !.q = 3]
                    ELSE IF c = "@" THEN s ELSE ReRestart(c)
      [] s.q = 3 -> IF c \in ReWhitespace THEN s
                    ELSE IF c = "-" THEN [s EXCEPT !.q = 4] ELSE ReRestart(c)
      [] s.q = 4 -> IF c \in Digits THEN [s EXCEPT !.q = 5, !.g1 = <<c>>] ELSE ReRestart(c)
      [] s.q = 5 -> IF c \in Digits THEN [s EXCEPT !.g1 = Append(@, c)]
                    ELSE IF c = "," THEN [s EXCEPT !.q = 6]
                    ELSE IF c \in ReWhitespace THEN [s EXCEPT !.q = 8] ELSE ReRestart(c)
      [] s.q = 6 -> IF c \in Digits THEN [s EXCEPT !.q = 7] ELSE ReRestart(c)
      [] s.q = 7 -> IF c \in Digits THEN s
                    ELSE IF c \in ReWhitespace THEN [s EXCEPT !.q = 8] ELSE ReRestart(c)
      [] s.q = 8 -> IF c \in ReWhitespace THEN s
                    ELSE IF c = "+" THEN [s EXCEPT !.q = 9] ELSE ReRestart(c)
      [] s.q = 9 -> IF c \in Digits THEN [s EXCEPT !.q = 10, !.g2 = <<c>>] ELSE ReRestart(c)
      [] s.q = 10 -> IF c \in Digits THEN [s EXCEPT !.g2 = Append(@, c)] ELSE [s EXCEPT !.q = 11]
      [] s.q = 11 -> s

\* line 219: the match object (ok, group(1), group(2)), or ok = FALSE for None
HunkSearch(line) ==
    LET s == FoldChars(ReStep, ReInit, line, 1, Len(line))
    IN  [ok |-> s.q >= 10, g1 |-> s.g1, g2 |-> s.g2]

\* lines 210-211
FormatPrefix(line_no) == IF line_no # None THEN Rjust(IntToStr(line_no), 6) ELSE Spaces(6)

\* lines 228-229, 234-235, 239-242: line_no += 1 unless it is None
Bump(line_no) == IF line_no # None THEN line_no + 1 ELSE line_no

\* the tests at the head of each branch of the loop body
IsHunkLine(line) == StartsWith(line, <<"@", "@">>)
IsAddedLine(line) == StartsWith(line, <<"+">>) /\ ~StartsWith(line, <<"+", "+", "+">>)
IsRemovedLine(line) == StartsWith(line, <<"-">>) /\ ~StartsWith(line, <<"-", "-", "-">>)
IsContextLine(line) == StartsWith(line, <<" ">>) \/ StartsWith(line, <<"\t">>)

\* the counters and the list before the first line
FormatInit == [old |-> None, new |-> None, out |-> <<>>]

\* lines 218-224
HunkStep(st, line) ==
    LET m == HunkSearch(line)
    IN  [old |-> IF m.ok THEN StrToInt(m.g1) ELSE st.old,
         new |-> IF m.ok THEN StrToInt(m.g2) ELSE st.new,
         out |-> Append(st.out, line)]

\* an added line that leaves new_line_no as it was
AddedStep_NoBump(st, line) ==
    [old |-> st.old,
     new |-> st.new,
     out |-> Append(st.out, FormatPrefix(st.new) \o <<" ">> \o line)]

\* lines 226-230
AddedStep(st, line) ==
    [old |-> st.old,
     new |-> Bump(st.new),
     out |-> Append(st.out, FormatPrefix(st.new) \o <<" ">> \o line)]

\* lines 232-236
RemovedStep(st, line) ==
    [old |-> Bump(st.old),
     new |-> st.new,
     out |-> Append(st.out, FormatPrefix(st.old) \o <<" ">> \o line)]

\* a context line that is numbered like an added line
ContextStep_Numbered(st, line) ==
    [old |-> Bump(st.old),
     new |-> Bump(st.new),
     out |-> Append(st.out, FormatPrefix(st.new) \o <<" ">> \o line)]

\* lines 238-244
ContextStep(st, line) ==
    [old |-> Bump(st.old), new |-> Bump(st.new), out |-> Append(st.out, line)]

\* line 246
OtherStep(st, line) == [st EXCEPT !.out = Append(@, line)]

\* lines 217-246: one pass of the loop body
FormatLineStep(st, line) ==
    IF IsHunkLine(line) THEN HunkStep(st, line)
    ELSE IF IsAddedLine(line) THEN AddedStep(st, line)
    ELSE IF IsRemovedLine(line) THEN RemovedStep(st, line)
    ELSE IF IsContextLine(line) THEN ContextStep(st, line)
    ELSE OtherStep(st, line)

\* lines 206-248: the whole function
FormatDiffWithLineNumbers(t) ==
    LET ls == Splitlines(t)
    IN  Join(NL, FoldChars(FormatLineStep, FormatInit, ls, 1, Len(ls)).out)

(* The inputs: up to MaxDiffLines lines, joined by "\n", with or without a *)
(* newline after the last one.                                             *)

MaxDiffLines == 3

L_hunk == <<"@", "@", " ", "-", "1", "0", ",", "3", " ", "+", "1", "2", ",", "4", " ", "@", "@">>
L_hunk_big ==
    <<"@", "@", " ", "-", "9", "9", "9", "9", "9", "8", " ",
      "+", "1", "0", "0", "0", "0", "0", "0", " ", "@", "@">>
L_hunk_bad == <<"@", "@", " ", "-", "x", " ", "+", "y", " ", "@", "@">>
L_added == <<"+", "a">>
L_removed == <<"-", "b">>
L_context == <<" ", "c">>
L_context_tab == <<"\t", "c">>
L_new_file == <<"+", "+", "+", " ", "b">>
L_old_file == <<"-", "-", "-", " ", "a">>
L_other == <<"\\", " ", "n">>

DiffLines ==
    { L_hunk,          \* @@ -10,3 +12,4 @@
      L_hunk_big,      \* @@ -999998 +1000000 @@
      L_hunk_bad,      \* @@ -x +y @@
      L_added, L_removed, L_context, L_context_tab, L_new_file, L_old_file,
      L_other }        \* \ n

DiffTexts ==
    { Join(NL, ls) \o end : ls \in SeqsUpTo(DiffLines, MaxDiffLines), end \in {<<>>, NL} }

\* the state of the loop, as the record the step operators work on
FormatState == [old |-> old_line_no, new |-> new_line_no, out |-> formatted_lines]

InitFormat ==
    /\ diff_text \in DiffTexts
    /\ fpc = "call"
    /\ lines = <<>>
    /\ line_idx = 0
    /\ formatted_lines = <<>>
    /\ old_line_no = None
    /\ new_line_no = None
    /\ formatted = <<>>
    /\ NotFmtIdle

\* lines 213-217: the locals are set and the text is split
FormatStart ==
    /\ fpc = "call"
    /\ lines' = Splitlines(diff_text)
    /\ formatted_lines' = FormatInit.out
    /\ old_line_no' = FormatInit.old
    /\ new_line_no' = FormatInit.new
    /\ fpc' = "loop"
    /\ UNCHANGED <<diff_text, line_idx, formatted>>
    /\ UNCHANGED notFmtVars

\* the for statement can draw a line
HasNextLine ==
    /\ fpc = "loop"
    /\ line_idx < Len(lines)

\* the line it draws
NextLine == lines[line_idx + 1]

\* the loop body runs on the line drawn
FormatNextLine ==
    /\ LET st == FormatLineStep(FormatState, NextLine)
       IN  /\ old_line_no' = st.old
           /\ new_line_no' = st.new
           /\ formatted_lines' = st.out
    /\ line_idx' = line_idx + 1
    /\ UNCHANGED <<diff_text, fpc, lines, formatted>>
    /\ UNCHANGED notFmtVars

IsOtherLine(line) ==
    ~(IsHunkLine(line) \/ IsAddedLine(line) \/ IsRemovedLine(line) \/ IsContextLine(line))
IsParsedHunkLine(line) == IsHunkLine(line) /\ HunkSearch(line).ok
IsUnparsedHunkLine(line) == IsHunkLine(line) /\ ~HunkSearch(line).ok

\* lines 218-224, the header matches
FormatHunkParsed ==
    /\ HasNextLine
    /\ IsParsedHunkLine(NextLine)
    /\ FormatNextLine

\* lines 218-224, the header does not match
FormatHunkUnparsed ==
    /\ HasNextLine
    /\ IsUnparsedHunkLine(NextLine)
    /\ FormatNextLine

\* lines 226-230
FormatAdded ==
    /\ HasNextLine
    /\ IsAddedLine(NextLine)
    /\ FormatNextLine

\* lines 232-236
FormatRemoved ==
    /\ HasNextLine
    /\ IsRemovedLine(NextLine)
    /\ FormatNextLine

\* lines 238-244
FormatContext ==
    /\ HasNextLine
    /\ IsContextLine(NextLine)
    /\ FormatNextLine

\* line 246
FormatOther ==
    /\ HasNextLine
    /\ IsOtherLine(NextLine)
    /\ FormatNextLine

\* line 248
FormatReturn ==
    /\ fpc = "loop"
    /\ line_idx = Len(lines)
    /\ formatted' = Join(NL, formatted_lines)
    /\ fpc' = "returned"
    /\ UNCHANGED <<diff_text, lines, line_idx, formatted_lines, old_line_no, new_line_no>>
    /\ UNCHANGED notFmtVars

NextFormat ==
    \/ FormatStart
    \/ FormatHunkParsed
    \/ FormatHunkUnparsed
    \/ FormatAdded
    \/ FormatRemoved
    \/ FormatContext
    \/ FormatOther
    \/ FormatReturn

SpecFormat == InitFormat /\ [][NextFormat]_vars

----------------------------------------------------------------------------
(* CommandInterface._gether_gitlab_diff *)

S_title ==
    <<"M", "e", "r", "g", "e", " ", "R", "e", "q", "u", "e", "s", "t", " ", "T", "i", "t",
      "l", "e", ":", " ">>
S_description ==
    <<"M", "e", "r", "g", "e", " ", "R", "e", "q", "u", "e", "s", "t", " ", "D", "e", "s",
      "c", "r", "i", "p", "t", "i", "o", "n", ":", " ">>
S_file == <<"#", "#", " ", "F", "i", "l", "e", ":", " ", "'">>
S_old_path == <<"o", "l", "d", "_", "p", "a", "t", "h", ":", " ">>
S_new_path == <<"n", "e", "w", "_", "p", "a", "t", "h", ":", " ">>
S_status == <<"s", "t", "a", "t", "u", "s", ":", " ">>
S_can_review ==
    <<"c", "a", "n", "_", "r", "e", "v", "i", "e", "w", "_", "d", "i", "f", "f", ":", " ">>
S_true == <<"t", "r", "u", "e">>
S_false == <<"f", "a", "l", "s", "e">>
S_diff == <<"D", "i", "f", "f", ":">>
S_unavailable ==
    <<"D", "i", "f", "f", " ", "u", "n", "a", "v", "a", "i", "l", "a", "b", "l", "e">>
S_note ==
    <<"N", "o", "t", "e", ":", " ", "T", "h", "e", " ", "f", "o", "l", "l", "o", "w", "i",
      "n", "g", " ", "f", "i", "l", "e", "s", " ", "w", "e", "r", "e", " ", "s", "k",
      "i", "p", "p", "e", "d", " ", "d", "u", "e", " ", "t", "o", " ", "s", "i", "z",
      "e", " ", "c", "o", "n", "s", "t", "r", "a", "i", "n", "t", "s", ":", " ">>
S_comma == <<",", " ">>
S_unknown == <<"u", "n", "k", "n", "o", "w", "n">>
S_None == <<"N", "o", "n", "e">>
S_added == <<"a", "d", "d", "e", "d">>
S_deleted == <<"d", "e", "l", "e", "t", "e", "d">>
S_renamed == <<"r", "e", "n", "a", "m", "e", "d">>
S_generated == <<"g", "e", "n", "e", "r", "a", "t", "e", "d">>
S_modified == <<"m", "o", "d", "i", "f", "i", "e", "d">>

\* d.get(key, default) of a dict d
Get(d, key, default) == IF key \in DOMAIN d THEN d[key] ELSE default

\* d.get(key) where a str is expected: the value, or <<>> for the falsy None
GetStr(d, key) == Get(d, key, <<>>)

\* f"{d.get(key)}": the value, or the text of None
FormatGet(d, key) == IF key \in DOMAIN d THEN d[key] ELSE S_None

\* bool(d.get(key)) of a marker
Marker(d, key) == Get(d, key, FALSE)

\* getattr(d, name, default) of a dict d: its keys are no attributes
GetAttr(d, name, default) == default

\* x or y, of two str
Or(x, y) == IF x # <<>> THEN x ELSE y

PyWhitespace == {" ", "\t", "\n", "\r", "\f"}

RECURSIVE LStrip(_)
LStrip(t) == IF t # <<>> /\ Head(t) \in PyWhitespace THEN LStrip(Tail(t)) ELSE t

RECURSIVE RStrip(_)
RStrip(t) ==
    IF t # <<>> /\ t[Len(t)] \in PyWhitespace THEN RStrip(SubSeq(t, 1, Len(t) - 1)) ELSE t

\* t.strip()
Strip(t) == RStrip(LStrip(t))

\* a token estimate that rounds up
token_counter_RoundsUp(t) == (Len(t) + 3) \div 4

\* app/agents/utils.py, token_counter
token_counter(t) == Len(t) \div 4

\* line 155
DiffText(d) == Or(GetStr(d, "diff"), <<>>)

\* line 157
IsSkipped(d, budget) == token_counter(DiffText(d)) > budget

\* line 159
IgnoredPath(d) == Or(GetStr(d, "new_path"), Get(d, "old_path", S_unknown))

\* the precedence with renamed_file looked at first
Status_RenamedFirst(d) ==
    IF Marker(d, "renamed_file") THEN S_renamed
    ELSE IF Marker(d, "new_file") THEN S_added
    ELSE IF Marker(d, "deleted_file") THEN S_deleted
    ELSE IF Marker(d, "generated_file") THEN S_generated
    ELSE S_modified

\* lines 163-172
Status(d) ==
    IF Marker(d, "new_file") THEN S_added
    ELSE IF Marker(d, "deleted_file") THEN S_deleted
    ELSE IF Marker(d, "renamed_file") THEN S_renamed
    ELSE IF Marker(d, "generated_file") THEN S_generated
    ELSE S_modified

\* lines 174-178
CanReview(d) ==
    /\ ~GetAttr(d, "too_large", FALSE)
    /\ ~GetAttr(d, "collapsed", FALSE)
    /\ Strip(DiffText(d)) # <<>>

\* str(can_review).lower()
LowerBool(b) == IF b THEN S_true ELSE S_false

\* lines 180-187
BlockHead(d) ==
    << S_file \o Or(Or(GetStr(d, "new_path"), GetStr(d, "old_path")), S_unknown) \o <<"'">>,
       S_old_path \o FormatGet(d, "old_path"),
       S_new_path \o FormatGet(d, "new_path"),
       S_status \o Status(d),
       S_can_review \o LowerBool(CanReview(d)),
       <<>> >>

\* lines 189-196
BlockBody(d) ==
    IF CanReview(d)
    THEN <<S_diff, FormatDiffWithLineNumbers(DiffText(d)), <<>>>>
    ELSE <<S_unavailable, <<>>>>

(* The inputs: up to MaxFiles entries, and a budget that the larger diff    *)
(* text exceeds and the smaller one meets exactly.                         *)

MaxFiles == 2

MrTitle == <<"T">>
MrDescription == <<"D">>

D_small == L_hunk \o NL \o L_added                  \* 20 characters, 5 tokens
D_big == L_hunk \o NL \o L_removed \o NL \o L_added    \* 23 characters, 5 tokens
D_over == D_big \o NL                                \* 24 characters, 6 tokens
D_blank == <<" ", "\n">>
D_empty == <<>>

TokenBudgets == {5, 6}

\* an entry as GitLab returns it for a modified file
PlainEntry ==
    [diff |-> D_small, old_path |-> <<"a">>, new_path |-> <<"b">>,
     new_file |-> FALSE, deleted_file |-> FALSE, renamed_file |-> FALSE,
     generated_file |-> FALSE, too_large |-> FALSE, collapsed |-> FALSE]

\* d without the key
Without(d, key) == [k \in DOMAIN d \ {key} |-> d[k]]

\* every combination of the four status markers
StatusEntries ==
    { [PlainEntry EXCEPT !.new_file = nf, !.deleted_file = df,
                         !.renamed_file = rf, !.generated_file = gf] :
        nf \in BOOLEAN, df \in BOOLEAN, rf \in BOOLEAN, gf \in BOOLEAN }

\* the too_large and collapsed marks, on a diff text that is there or blank
ReviewEntries ==
    { [PlainEntry EXCEPT !.diff = t, !.too_large = tl, !.collapsed = co] :
        t \in {D_small, D_blank}, tl \in BOOLEAN, co \in BOOLEAN }

\* the diff text empty or absent, the marks absent, the new path empty or absent
SparseEntries ==
    { [PlainEntry EXCEPT !.diff = D_empty],
      Without(PlainEntry, "diff"),
      Without(Without(Without(PlainEntry, "too_large"), "collapsed"), "generated_file"),
      [PlainEntry EXCEPT !.new_path = <<>>],
      Without(PlainEntry, "new_path") }

\* the larger diff texts
LargeEntries ==
    { [PlainEntry EXCEPT !.diff = D_big],
      [PlainEntry EXCEPT !.diff = D_over],
      [PlainEntry EXCEPT !.diff = D_over, !.new_path = <<>>],
      [PlainEntry EXCEPT !.diff = D_over, !.too_large = TRUE] }

Entries == StatusEntries \cup ReviewEntries \cup SparseEntries \cup LargeEntries

\* the entry with the number of its file put after the paths it has: the
\* files of one merge request have different paths
WithFileNumber(d, i) ==
    [k \in DOMAIN d |->
        IF k \in {"old_path", "new_path"} /\ d[k] # <<>> THEN d[k] \o IntToStr(i) ELSE d[k]]

MrDiffs == { [i \in 1..Len(q) |-> WithFileNumber(q[i], i)] : q \in SeqsUpTo(Entries, MaxFiles) }

InitGather ==
    /\ mr_diffs \in MrDiffs
    /\ max_tokens_per_diff \in TokenBudgets
    /\ gpc = "call"
    /\ diff_no = 0
    /\ context_lines = <<>>
    /\ ignored_files = <<>>
    /\ logged = ""
    /\ context = <<>>
    /\ NotGatherIdle

\* lines 133-137: there is no diff version
GatherNoVersions ==
    /\ gpc = "call"
    /\ gpc' = "returned"
    /\ logged' = "warning"
    /\ context' = <<>>
    /\ UNCHANGED <<mr_diffs, max_tokens_per_diff, diff_no, context_lines, ignored_files>>
    /\ UNCHANGED notGatherVars

\* lines 139-145: the fetch raised
GatherFetchFailed ==
    /\ gpc = "call"
    /\ gpc' = "returned"
    /\ logged' = "error"
    /\ context' = <<>>
    /\ UNCHANGED <<mr_diffs, max_tokens_per_diff, diff_no, context_lines, ignored_files>>
    /\ UNCHANGED notGatherVars

\* lines 132-153: the entries were fetched
GatherFetch ==
    /\ gpc = "call"
    /\ gpc' = "loop"
    /\ context_lines' = <<S_title \o MrTitle, S_description \o MrDescription, <<>>>>
    /\ ignored_files' = <<>>
    /\ UNCHANGED <<mr_diffs, max_tokens_per_diff, diff_no, logged, context>>
    /\ UNCHANGED notGatherVars

HasNextDiff == gpc = "loop" /\ diff_no < Len(mr_diffs)
NextDiff == mr_diffs[diff_no + 1]

\* lines 154-161: an entry over the budget
GatherSkipFile ==
    /\ HasNextDiff
    /\ IsSkipped(NextDiff, max_tokens_per_diff)
    /\ ignored_files' = Append(ignored_files, IgnoredPath(NextDiff))
    /\ diff_no' = diff_no + 1
    /\ UNCHANGED <<mr_diffs, max_tokens_per_diff, gpc, context_lines, logged, context>>
    /\ UNCHANGED notGatherVars

\* lines 154-196: an entry within the budget whose diff can be reviewed
GatherReviewableFile ==
    /\ HasNextDiff
    /\ ~IsSkipped(NextDiff, max_tokens_per_diff)
    /\ CanReview(NextDiff)
    /\ context_lines' = context_lines \o BlockHead(NextDiff) \o BlockBody(NextDiff)
    /\ diff_no' = diff_no + 1
    /\ UNCHANGED <<mr_diffs, max_tokens_per_diff, gpc, ignored_files, logged, context>>
    /\ UNCHANGED notGatherVars

\* lines 154-196: an entry within the budget whose diff cannot be reviewed
GatherUnavailableFile ==
    /\ HasNextDiff
    /\ ~IsSkipped(NextDiff, max_tokens_per_diff)
    /\ ~CanReview(NextDiff)
    /\ context_lines' = context_lines \o BlockHead(NextDiff) \o BlockBody(NextDiff)
    /\ diff_no' = diff_no + 1
    /\ UNCHANGED <<mr_diffs, max_tokens_per_diff, gpc, ignored_files, logged, context>>
    /\ UNCHANGED notGatherVars

\* lines 198-202
WithNote(ls, ignored) ==
    IF ignored # <<>> THEN Append(ls, S_note \o Join(S_comma, ignored)) ELSE ls

\* lines 198-204: the loop is over
GatherReturn ==
    /\ gpc = "loop"
    /\ diff_no = Len(mr_diffs)
    /\ context_lines' = WithNote(context_lines, ignored_files)
    /\ context' = Join(NL, context_lines')
    /\ gpc' = "returned"
    /\ UNCHANGED <<mr_diffs, max_tokens_per_diff, diff_no, ignored_files, logged>>
    /\ UNCHANGED notGatherVars

NextGather ==
    \/ GatherNoVersions
    \/ GatherFetchFailed
    \/ GatherFetch
    \/ GatherSkipFile
    \/ GatherReviewableFile
    \/ GatherUnavailableFile
    \/ GatherReturn

SpecGather == InitGather /\ [][NextGather]_vars


----------------------------------------------------------------------------
(* CommandInterface._extract_issue_iids *)

\* the characters \w matches, of those the inputs are written with
WordChars ==
    Digits \cup {"_"} \cup
    {"a", "b", "c", "d", "e", "f", "g", "h", "i", "j", "k", "l", "m",
     "n", "o", "p", "q", "r", "s", "t", "u", "v", "w", "x", "y", "z",
     "A", "B", "C", "D", "E", "F", "G", "H", "I", "J", "K", "L", "M",
     "N", "O", "P", "Q", "R", "S", "T", "U", "V", "W", "X", "Y", "Z"}

\* title or ''
OrEmpty(o) == IF o.some THEN o.val ELSE <<>>

\* line 253
CombinedText(title, description) == OrEmpty(title) \o NL \o OrEmpty(description)

\* lines 258-261, without the look at seen
AddIssueId_Repeats(ids, digits) == Append(ids, StrToInt(digits))

\* lines 258-261
AddIssueId(ids, digits) ==
    IF StrToInt(digits) \in Range(ids) THEN ids ELSE Append(ids, StrToInt(digits))

(* re.findall(r"(?<!\w)#(\d+)", combined_text), line 257, with the loop of  *)
(* lines 257-261 applied to each match as it is found. mode is "idle",      *)
(* "hash" after a "#" that no word character precedes, "digits" inside     *)
(* group 1; word tells whether the last character was a word character.    *)
IssueScanInit == [mode |-> "idle", word |-> FALSE, digits |-> <<>>, ids |-> <<>>]

IssueScanStep(s, c) ==
    IF s.mode \in {"hash", "digits"} /\ c \in Digits
    THEN [s EXCEPT !.mode = "digits", !.word = TRUE, !.digits = Append(s.digits, c)]
    ELSE [mode |-> IF c = "#" /\ ~s.word THEN "hash" ELSE "idle",
          word |-> c \in WordChars,
          digits |-> <<>>,
          ids |-> IF s.mode = "digits" THEN AddIssueId(s.ids, s.digits) ELSE s.ids]

IssueScanEnd(s) == IF s.mode = "digits" THEN AddIssueId(s.ids, s.digits) ELSE s.ids

\* lines 250-263
ExtractIssueIids(title, description) ==
    IssueScanEnd(FoldChars(IssueScanStep, IssueScanInit, CombinedText(title, description),
                           1, Len(CombinedText(title, description))))

----------------------------------------------------------------------------
(* CommandInterface.gether_gitlab_data *)

\* f"{value}" of an Optional[str]
FormatOpt(o) == IF o.some THEN o.val ELSE S_None

RECURSIVE KeptBlocks(_, _)
\* command_interface.py lines 154-196: the blocks of the entries within the budget
KeptBlocks(diffs, budget) ==
    IF diffs = <<>> THEN <<>>
    ELSE IF IsSkipped(Head(diffs), budget) THEN KeptBlocks(Tail(diffs), budget)
    ELSE BlockHead(Head(diffs)) \o BlockBody(Head(diffs)) \o KeptBlocks(Tail(diffs), budget)

RECURSIVE IgnoredFiles(_, _)
\* command_interface.py lines 154-161: the paths of the entries over the budget
IgnoredFiles(diffs, budget) ==
    IF diffs = <<>> THEN <<>>
    ELSE IF IsSkipped(Head(diffs), budget)
         THEN <<IgnoredPath(Head(diffs))>> \o IgnoredFiles(Tail(diffs), budget)
    ELSE IgnoredFiles(Tail(diffs), budget)

\* _gether_gitlab_diff(mr) when the entries were fetched, lines 147-204
GetherGitlabDiff(title, description, diffs, budget) ==
    Join(NL, WithNote(<<S_title \o title, S_description \o FormatOpt(description), <<>>>>
                          \o KeptBlocks(diffs, budget),
                      IgnoredFiles(diffs, budget)))

\* core/config.py line 140
DefaultMaxTokensPerDiff == 4000

(* The inputs: a title of up to MaxRefWords words, a description, the diff  *)
(* entries, and for each issue number the way its fetch ends.              *)

MaxRefWords == 2

R_12 == <<"#", "1", "2">>
R_7 == <<"#", "7">>
R_abc12 == <<"a", "b", "c", "#", "1", "2">>
R_paren12 == <<"(", "#", "1", "2", ")">>
R_007 == <<"#", "0", "0", "7">>
R_hash == <<"#">>
T_example ==
    <<"F", "i", "x", "e", "s", " ", "#", "1", "2", " ", "a", "n", "d", " ", "a", "l",
      "s", "o", " ", "#", "7", ",", " ", "s", "e", "e", " ", "#", "1", "2", " ", "a",
      "g", "a", "i", "n">>
T_see12 == <<"s", "e", "e", " ", "#", "1", "2">>
T_digits == <<"1", "2">>

RefWords == {R_12, R_7, R_abc12, R_paren12, R_007, R_hash}

TitleTexts == {Join(SP, ws) : ws \in SeqsUpTo(RefWords, MaxRefWords)} \cup {T_example}

DescriptionTexts == {NoneStr, Some(<<>>), Some(R_7), Some(T_see12), Some(T_digits)}

IssueNumbers == {7, 12}
FetchOutcomes == {"found", "GitlabError", "Exception"}

MrBranch == <<"d", "e", "v">>

InitData ==
    /\ mr_title \in TitleTexts
    /\ mr_description \in DescriptionTexts
    /\ mr_changes \in {<<>>, <<WithFileNumber(PlainEntry, 1)>>}
    /\ issues \in [IssueNumbers -> FetchOutcomes]
    /\ dpc = "call"
    /\ data = DefaultData
    /\ issue_ids = <<>>
    /\ issue_no = 0
    /\ related_issues = <<>>
    /\ data_logged = <<>>
    /\ data_error = NoError
    /\ NotDataIdle

DataInputs == <<mr_title, mr_description, mr_changes, issues>>

\* lines 74-85: the merge request was fetched
DataFetchMr ==
    /\ dpc = "call"
    /\ data' = [data EXCEPT !.title = mr_title, !.branch = MrBranch,
                            !.description = mr_description]
    /\ dpc' = "diff"
    /\ UNCHANGED <<DataInputs, issue_ids, issue_no, related_issues, data_logged, data_error>>
    /\ UNCHANGED notDataVars

\* lines 74-81: the fetch raised a gitlab.GitlabError
DataFetchMrGitlabError ==
    /\ dpc = "call"
    /\ data_logged' = Append(data_logged, "error: Failed to fetch MR")
    /\ dpc' = "returned"
    /\ UNCHANGED <<DataInputs, data, issue_ids, issue_no, related_issues, data_error>>
    /\ UNCHANGED notDataVars

\* lines 74-77: the fetch raised an exception that is no gitlab.GitlabError,
\* as the HTTP session's timeout and connection errors are
DataFetchMrOtherError ==
    /\ dpc = "call"
    /\ data_error' = [type |-> "Exception", msg |-> "mr fetch", name |-> <<>>]
    /\ dpc' = "raised"
    /\ UNCHANGED <<DataInputs, data, issue_ids, issue_no, related_issues, data_logged>>
    /\ UNCHANGED notDataVars

\* lines 97-98
StartIssues ==
    /\ issue_ids' = ExtractIssueIids(Some(mr_title), mr_description)
    /\ issue_no' = 0
    /\ related_issues' = <<>>
    /\ dpc' = "issues"
    /\ UNCHANGED <<DataInputs, data_error>>
    /\ UNCHANGED notDataVars

\* lines 87-98: the diff was built
DataDiffBuilt ==
    /\ dpc = "diff"
    /\ data' = [data EXCEPT !.diff = GetherGitlabDiff(mr_title, mr_description, mr_changes,
                                                      DefaultMaxTokensPerDiff)]
    /\ UNCHANGED data_logged
    /\ StartIssues

\* lines 87-98, 133-137: there is no diff version
DataDiffNoVersions ==
    /\ dpc = "diff"
    /\ data' = [data EXCEPT !.diff = <<>>]
    /\ data_logged' = Append(data_logged, "warning: No diff versions found")
    /\ StartIssues

\* lines 87-98, 139-145: fetching the diff versions raised
DataDiffFetchFailed ==
    /\ dpc = "diff"
    /\ data' = [data EXCEPT !.diff = <<>>]
    /\ data_logged' = Append(data_logged, "error: Failed to fetch diff")
    /\ StartIssues

\* lines 87-98: _gether_gitlab_diff itself raised
DataDiffRaised ==
    /\ dpc = "diff"
    /\ UNCHANGED data
    /\ data_logged' = Append(data_logged, "error: Failed to build diff")
    /\ StartIssues

HasNextIssue == dpc = "issues" /\ issue_no < Len(issue_ids)
NextIssue == issue_ids[issue_no + 1]

\* line 105
IssueRef(iid) == <<"#">> \o IntToStr(iid)

\* lines 104-109
RelatedIssue(iid) ==
    [id |-> IssueRef(iid), title |-> <<"I">>, labels |-> <<>>, description |-> <<>>]

\* a failed fetch that leaves a None in the list
DataIssueGitlabError_NullFilled ==
    /\ HasNextIssue
    /\ issues[NextIssue] = "GitlabError"
    /\ related_issues' = Append(related_issues, [id |-> <<>>, title |-> <<>>, labels |-> <<>>,
                                                 description |-> <<>>])
    /\ data_logged' = Append(data_logged, "error: Failed to fetch issue")
    /\ issue_no' = issue_no + 1
    /\ UNCHANGED <<DataInputs, dpc, data, issue_ids, data_error>>
    /\ UNCHANGED notDataVars

\* lines 100-110: the issue was fetched
DataIssueFound ==
    /\ HasNextIssue
    /\ issues[NextIssue] = "found"
    /\ related_issues' = Append(related_issues, RelatedIssue(NextIssue))
    /\ issue_no' = issue_no + 1
    /\ UNCHANGED <<DataInputs, dpc, data, issue_ids, data_logged, data_error>>
    /\ UNCHANGED notDataVars

\* lines 100-117: the fetch raised a gitlab.GitlabError
DataIssueGitlabError ==
    /\ HasNextIssue
    /\ issues[NextIssue] = "GitlabError"
    /\ data_logged' = Append(data_logged, "error: Failed to fetch issue")
    /\ issue_no' = issue_no + 1
    /\ UNCHANGED <<DataInputs, dpc, data, issue_ids, related_issues, data_error>>
    /\ UNCHANGED notDataVars

\* lines 100-124: the fetch raised another exception
DataIssueOtherError ==
    /\ HasNextIssue
    /\ issues[NextIssue] = "Exception"
    /\ data_logged' = Append(data_logged, "error: Unexpected error fetching issue")
    /\ issue_no' = issue_no + 1
    /\ UNCHANGED <<DataInputs, dpc, data, issue_ids, related_issues, data_error>>
    /\ UNCHANGED notDataVars

\* lines 126-128
DataReturn ==
    /\ dpc = "issues"
    /\ issue_no = Len(issue_ids)
    /\ data' = [data EXCEPT !.related_issues = related_issues]
    /\ dpc' = "returned"
    /\ UNCHANGED <<DataInputs, issue_ids, issue_no, related_issues, data_logged, data_error>>
    /\ UNCHANGED notDataVars

NextData ==
    \/ DataFetchMr
    \/ DataFetchMrGitlabError
    \/ DataFetchMrOtherError
    \/ DataDiffBuilt
    \/ DataDiffNoVersions
    \/ DataDiffFetchFailed
    \/ DataDiffRaised
    \/ DataIssueFound
    \/ DataIssueGitlabError
    \/ DataIssueOtherError
    \/ DataReturn

SpecData == InitData /\ [][NextData]_vars

----------------------------------------------------------------------------
(* Python str methods and agents/utils.py, as ReviewCommand uses them *)

LowerLetters ==
    <<"a", "b", "c", "d", "e", "f", "g", "h", "i", "j", "k", "l", "m",
      "n", "o", "p", "q", "r", "s", "t", "u", "v", "w", "x", "y", "z">>
UpperLetters ==
    <<"A", "B", "C", "D", "E", "F", "G", "H", "I", "J", "K", "L", "M",
      "N", "O", "P", "Q", "R", "S", "T", "U", "V", "W", "X", "Y", "Z">>

LetterNo(c, letters) == CHOOSE i \in 1..Len(letters) : letters[i] = c

LowerChar(c) == IF c \in Range(UpperLetters) THEN LowerLetters[LetterNo(c, UpperLetters)] ELSE c
UpperChar(c) == IF c \in Range(LowerLetters) THEN UpperLetters[LetterNo(c, LowerLetters)] ELSE c

\* t.lower()
Lower(t) == [i \in 1..Len(t) |-> LowerChar(t[i])]

\* t.capitalize()
Capitalize(t) == [i \in 1..Len(t) |-> IF i = 1 THEN UpperChar(t[i]) ELSE LowerChar(t[i])]

\* t.replace(a, b) of single characters
ReplaceChar(t, a, b) == [i \in 1..Len(t) |-> IF t[i] = a THEN b ELSE t[i]]

\* t.find(sub): the 0-based position of the first occurrence, or -1
Find(t, sub) ==
    LET ps == {q \in 0..(Len(t) - Len(sub)) :
                  \A k \in 1..Len(sub) : t[q + k] = sub[k]}
    IN  IF ps = {} THEN -1 ELSE CHOOSE q \in ps : \A r \in ps : q <= r

\* sub in t
Contains(t, sub) == Find(t, sub) # -1

RECURSIVE LStripChars(_, _)
\* t.lstrip(chars)
LStripChars(t, chars) ==
    IF t # <<>> /\ Head(t) \in chars THEN LStripChars(Tail(t), chars) ELSE t

RECURSIVE RStripChars(_, _)
RStripChars(t, chars) ==
    IF t # <<>> /\ t[Len(t)] \in chars THEN RStripChars(SubSeq(t, 1, Len(t) - 1), chars) ELSE t

\* t.strip(chars)
StripChars(t, chars) == RStripChars(LStripChars(t, chars), chars)

\* str(n) of an int
IntStr(n) == IF n < 0 THEN <<"-">> \o IntToStr(0 - n) ELSE IntToStr(n)

\* int(t) of a str: [ok, n]; white space around it and one sign are allowed
ParseInt(t) ==
    LET u == Strip(t)
        signed == u # <<>> /\ Head(u) \in {"-", "+"}
        ds == IF signed THEN Tail(u) ELSE u
    IN  IF ds # <<>> /\ \A i \in 1..Len(ds) : ds[i] \in Digits
        THEN [ok |-> TRUE, n |-> IF signed /\ Head(u) = "-" THEN 0 - StrToInt(ds) ELSE StrToInt(ds)]
        ELSE [ok |-> FALSE, n |-> 0]

\* t.split(sep)[0] of a single character
BeforeFirst(t, sep) == IF Find(t, <<sep>>) = -1 THEN t ELSE SubSeq(t, 1, Find(t, <<sep>>))

\* t.split(sep)[-1] of a single character
AfterLast(t, sep) ==
    LET ps == {q \in 1..Len(t) : t[q] = sep}
    IN  IF ps = {} THEN t ELSE SubSeq(t, (CHOOSE q \in ps : \A r \in ps : r <= q) + 1, Len(t))

\* the backquote character, which a TLA+ string cannot hold
Backtick == "BACKQUOTE"

S_strong == <<"<", "s", "t", "r", "o", "n", "g", ">">>
S_strong_end == <<"<", "/", "s", "t", "r", "o", "n", "g", ">">>
S_br == <<"<", "b", "r", ">">>

\* utils.py lines 12-52, emphasize_header(text)
emphasize_header(t) ==
    IF Find(t, <<":", " ">>) # -1
    THEN S_strong \o SubSeq(t, 1, Find(t, <<":", " ">>) + 1) \o S_strong_end \o S_br
             \o DropPrefix(t, Find(t, <<":", " ">>) + 1)
    ELSE t

\* utils.py lines 83-126, get_line_link; end is 0 where None is passed
get_line_link(gl_url, proj_path, source_branch, relevant_file, start, end) ==
    LET file == LStripChars(StripChars(Strip(relevant_file), {Backtick}), {"/"})
        base == gl_url \o <<"/">> \o proj_path \o <<"/", "-", "/", "b", "l", "o", "b", "/">> \o source_branch \o <<"/">>
                    \o file \o <<"?", "r", "e", "f", "_", "t", "y", "p", "e", "=", "h", "e", "a", "d", "s">>
    IN  IF start = -1 THEN base
        ELSE IF end # 0 THEN base \o <<"#", "L">> \o IntStr(start) \o <<"-", "L">> \o IntStr(end)
        ELSE base \o <<"#", "L">> \o IntStr(start)

----------------------------------------------------------------------------
(* Python values of more than one type: None, a str, an int, a list of dicts *)

PyNone == [t |-> "none", s |-> <<>>, n |-> 0, items |-> <<>>, comps |-> <<>>]
PyStr(v) == [t |-> "str", s |-> v, n |-> 0, items |-> <<>>, comps |-> <<>>]
PyInt(v) == [t |-> "int", s |-> <<>>, n |-> v, items |-> <<>>, comps |-> <<>>]
\* a list of KeyIssuesComponentLink dicts
PyList(v) == [t |-> "list", s |-> <<>>, n |-> 0, items |-> v, comps |-> <<>>]
\* a list of IssueCompliance dicts
PyComps(v) == [t |-> "list", s |-> <<>>, n |-> 0, items |-> <<>>, comps |-> v]

----------------------------------------------------------------------------
(* ReviewCommand.run *)

ReviewFlagNames ==
    {"require_estimate_effort_to_review", "require_score", "require_tests",
     "require_security_review", "require_prompt_suggestion"}

\* the str values pydantic reads as a bool, of those the inputs use
BoolTrueStrs == {<<"t", "r", "u", "e">>, <<"y", "e", "s">>}
BoolFalseStrs == {<<"f", "a", "l", "s", "e">>, <<"n", "o">>}

\* flags.get(name, True), lines 90-96
FlagOrTrue(fl, name) == IF name \in DOMAIN fl THEN fl[name] ELSE FlagTrue

\* pydantic's reading of a bool field of ReviewInput, lines 29-33
IsBoolValue(v) == v.isTrue \/ v.str \in BoolTrueStrs \cup BoolFalseStrs
BoolValue(v) == v.isTrue \/ v.str \in BoolTrueStrs

\* lines 84-97
ReviewInput(fl, related) ==
    [require_estimate_effort_to_review |->
         BoolValue(FlagOrTrue(fl, "require_estimate_effort_to_review")),
     require_score |-> BoolValue(FlagOrTrue(fl, "require_score")),
     require_tests |-> BoolValue(FlagOrTrue(fl, "require_tests")),
     require_security_review |-> BoolValue(FlagOrTrue(fl, "require_security_review")),
     require_prompt_suggestion |-> BoolValue(FlagOrTrue(fl, "require_prompt_suggestion")),
     related_issues |-> related]

\* lines 104-123: the dict with a (type, default) for every name; typed is
\* FALSE where the type is None, required is TRUE where the default is ...
ModelFieldsDict(inp) ==
    << [name |-> "issue_compliance_check", typed |-> inp.related_issues, required |-> FALSE],
       [name |-> "estimated_effort_to_review",
        typed |-> inp.require_estimate_effort_to_review, required |-> FALSE],
       [name |-> "score", typed |-> inp.require_score, required |-> FALSE],
       [name |-> "relevant_tests", typed |-> inp.require_tests, required |-> FALSE],
       [name |-> "security_concerns", typed |-> inp.require_security_review,
        required |-> FALSE],
       [name |-> "prompt_suggestion_for_agent", typed |-> inp.require_prompt_suggestion,
        required |-> FALSE],
       [name |-> "key_issues_to_review", typed |-> TRUE, required |-> TRUE] >>

\* a filter that lets every field through
IsTyped_Always(field) == TRUE

\* line 125: v[0] is not None
IsTyped(field) == field.typed

\* lines 124-129
ModelFields(inp) == SelectSeq(ModelFieldsDict(inp), IsTyped)

FieldNames(fields) == [k \in 1..Len(fields) |-> fields[k].name]

\* pydantic's validation of what the LLM supplied against ReviewOutput: a
\* field declared with ... must be supplied
Validates(fields, raw) ==
    \A k \in 1..Len(fields) : fields[k].required => fields[k].name \in DOMAIN raw

\* ReviewOutput(**raw).model_dump(): the fields in their order, each with the
\* supplied value or its default None; what is no field is ignored
ModelDump(fields, raw) ==
    [k \in 1..Len(fields) |->
        [key |-> fields[k].name,
         value |-> IF fields[k].name \in DOMAIN raw THEN raw[fields[k].name] ELSE PyNone]]

(* The inputs: for each flag no entry, True, or a str; whether there are   *)
(* related issues; and at each answer of the LLM one of a few outputs.      *)

V_maybe == <<"m", "a", "y", "b", "e">>
V_false == <<"f", "a", "l", "s", "e">>
V_85 == <<"8", "5">>
V_No == <<"N", "o">>

FlagChoices == {"missing", "True", "false", "maybe"}

FlagsOf(choice) ==
    [name \in {m \in ReviewFlagNames : choice[m] # "missing"} |->
        IF choice[name] = "True" THEN FlagTrue
        ELSE IF choice[name] = "false" THEN FlagStr(V_false)
        ELSE FlagStr(V_maybe)]

ReviewFlagDicts == {FlagsOf(choice) : choice \in [ReviewFlagNames -> FlagChoices]}

\* an output with a value for every field the schema can have
FullOutput ==
    [issue_compliance_check |-> PyList(<<>>),
     estimated_effort_to_review |-> PyInt(3),
     score |-> PyStr(V_85),
     relevant_tests |-> PyStr(V_No),
     security_concerns |-> PyStr(V_No),
     prompt_suggestion_for_agent |-> PyStr(V_No),
     key_issues_to_review |-> PyList(<<>>)]

Restrict(f, keys) == [k \in DOMAIN f \cap keys |-> f[k]]

LlmOutputs ==
    { FullOutput,
      Restrict(FullOutput, {"key_issues_to_review"}),
      Restrict(FullOutput, DOMAIN FullOutput \ {"key_issues_to_review"}),
      Restrict(FullOutput, {"score", "security_concerns"}),
      Restrict(FullOutput, {}) }

\* the answers an Agent asks for before it gives up: the first and one retry
MaxAttempts == 2

InitReview ==
    /\ review_flags \in ReviewFlagDicts
    /\ gitlab_related \in BOOLEAN
    /\ rpc = "call"
    /\ input_data = NoInput
    /\ model_fields = <<>>
    /\ llm_output = <<>>
    /\ output_data = <<>>
    /\ attempts = 0
    /\ review_markdown = <<>>
    /\ review_error = NoError
    /\ NotReviewIdle

ReviewInputs == <<review_flags, gitlab_related>>

AllFlagsValid == \A name \in ReviewFlagNames : IsBoolValue(FlagOrTrue(review_flags, name))

\* line 81: gether_gitlab_data raised
ReviewGatherRaised ==
    /\ rpc = "call"
    /\ rpc' = "raised"
    /\ review_error' = [type |-> "Exception", msg |-> "mr fetch", name |-> <<>>]
    /\ UNCHANGED <<ReviewInputs, input_data, model_fields, llm_output, output_data, attempts,
                   review_markdown>>
    /\ UNCHANGED notReviewVars

\* lines 81-97: a flag holds a str that is no bool
ReviewInputInvalid ==
    /\ rpc = "call"
    /\ ~AllFlagsValid
    /\ rpc' = "raised"
    /\ review_error' = [type |-> "ValidationError", msg |-> "ReviewInput", name |-> <<>>]
    /\ UNCHANGED <<ReviewInputs, input_data, model_fields, llm_output, output_data, attempts,
                   review_markdown>>
    /\ UNCHANGED notReviewVars

\* lines 81-132: the input, the prompts, the output model and the agent
ReviewBuildModel ==
    /\ rpc = "call"
    /\ AllFlagsValid
    /\ input_data' = ReviewInput(review_flags, gitlab_related)
    /\ model_fields' = FieldNames(ModelFields(input_data'))
    /\ rpc' = "agent"
    /\ UNCHANGED <<ReviewInputs, llm_output, output_data, attempts, review_markdown,
                   review_error>>
    /\ UNCHANGED notReviewVars

\* lines 135-138: the LLM's answer validates against ReviewOutput
ReviewLlmAccepted ==
    /\ rpc = "agent"
    /\ \E raw \in LlmOutputs :
          /\ Validates(ModelFields(input_data), raw)
          /\ llm_output' = raw
          /\ output_data' = ModelDump(ModelFields(input_data), raw)
    /\ attempts' = attempts + 1
    /\ rpc' = "answered"
    /\ UNCHANGED <<ReviewInputs, input_data, model_fields, review_markdown, review_error>>
    /\ UNCHANGED notReviewVars

\* lines 135-137: the answer does not validate and the agent asks again
ReviewLlmRejected ==
    /\ rpc = "agent"
    /\ attempts + 1 < MaxAttempts
    /\ \E raw \in LlmOutputs :
          /\ ~Validates(ModelFields(input_data), raw)
          /\ llm_output' = raw
    /\ attempts' = attempts + 1
    /\ UNCHANGED <<ReviewInputs, rpc, input_data, model_fields, output_data, review_markdown,
                   review_error>>
    /\ UNCHANGED notReviewVars

\* lines 135-137: the answer does not validate and the agent gives up
ReviewLlmGaveUp ==
    /\ rpc = "agent"
    /\ attempts + 1 >= MaxAttempts
    /\ \E raw \in LlmOutputs :
          /\ ~Validates(ModelFields(input_data), raw)
          /\ llm_output' = raw
    /\ attempts' = attempts + 1
    /\ rpc' = "raised"
    /\ review_error' = [type |-> "UnexpectedModelBehavior", msg |-> "retries", name |-> <<>>]
    /\ UNCHANGED <<ReviewInputs, input_data, model_fields, output_data, review_markdown>>
    /\ UNCHANGED notReviewVars

\* lines 135-137: the call of the LLM fails
ReviewLlmFailed ==
    /\ rpc = "agent"
    /\ rpc' = "raised"
    /\ review_error' = LlmError
    /\ UNCHANGED <<ReviewInputs, input_data, model_fields, llm_output, output_data, attempts,
                   review_markdown>>
    /\ UNCHANGED notReviewVars

----------------------------------------------------------------------------
(* ReviewCommand._convert_to_markdown, review.py lines 147-354.  An emoji   *)
(* is one character of the text, written as its name in braces.            *)

\* ReviewCommand.emojis, lines 57-71
emojis ==
    <<[name |-> <<"C", "a", "n", " ", "b", "e", " ", "s", "p", "l", "i", "t">>, emoji |-> "{shuffle}"],
      [name |-> <<"K", "e", "y", " ", "i", "s", "s", "u", "e", "s", " ", "t", "o", " ", "r",
          "e", "v", "i", "e", "w">>, emoji |-> "{zap}"],
      [name |-> <<"R", "e", "c", "o", "m", "m", "e", "n", "d", "e", "d", " ", "f", "o", "c",
          "u", "s", " ", "a", "r", "e", "a", "s", " ", "f", "o", "r", " ", "r", "e",
          "v", "i", "e", "w">>, emoji |-> "{zap}"],
      [name |-> <<"S", "c", "o", "r", "e">>, emoji |-> "{medal}"],
      [name |-> <<"R", "e", "l", "e", "v", "a", "n", "t", " ", "t", "e", "s", "t", "s">>, emoji |-> "{test_tube}"],
      [name |-> <<"F", "o", "c", "u", "s", "e", "d", " ", "P", "R">>, emoji |-> "{sparkles}"],
      [name |-> <<"R", "e", "l", "e", "v", "a", "n", "t", " ", "i", "s", "s", "u", "e">>, emoji |-> "{ticket}"],
      [name |-> <<"S", "e", "c", "u", "r", "i", "t", "y", " ", "c", "o", "n", "c", "e", "r",
          "n", "s">>, emoji |-> "{lock}"],
      [name |-> <<"I", "n", "s", "i", "g", "h", "t", "s", " ", "f", "r", "o", "m", " ", "u",
          "s", "e", "r", "'", "s", " ", "a", "n", "s", "w", "e", "r", "s">>, emoji |-> "{memo}"],
      [name |-> <<"C", "o", "d", "e", " ", "f", "e", "e", "d", "b", "a", "c", "k">>, emoji |-> "{robot}"],
      [name |-> <<"E", "s", "t", "i", "m", "a", "t", "e", "d", " ", "e", "f", "f", "o", "r",
          "t", " ", "t", "o", " ", "r", "e", "v", "i", "e", "w">>, emoji |-> "{stopwatch}"],
      [name |-> <<"I", "s", "s", "u", "e", " ", "c", "o", "m", "p", "l", "i", "a", "n", "c",
          "e", " ", "c", "h", "e", "c", "k">>, emoji |-> "{ticket}"],
      [name |-> <<"P", "r", "o", "m", "p", "t", " ", "s", "u", "g", "g", "e", "s", "t", "i",
          "o", "n", " ", "f", "o", "r", " ", "a", "g", "e", "n", "t">>, emoji |-> "{robot}"]>>

\* self.emojis.get(key_nice, ""), line 245
EmojiOf(key_nice) ==
    IF \E i \in 1..Len(emojis) : emojis[i].name = key_nice
    THEN <<emojis[CHOOSE i \in 1..Len(emojis) : emojis[i].name = key_nice].emoji>>
    ELSE <<>>

BlueCircle == "{blue_circle}"
WhiteCircle == "{white_circle}"

S_row == <<"<", "t", "r", ">", "<", "t", "d", ">">>
S_row_end == <<"<", "/", "t", "d", ">", "<", "/", "t", "r", ">", "\n">>
S_nbsp_strong == <<"&", "n", "b", "s", "p", ";", "<", "s", "t", "r", "o", "n", "g", ">">>
S_brbr == <<"<", "b", "r", ">", "<", "b", "r", ">">>
S_no == <<"n", "o">>
S_none == <<"N", "o", "n", "e">>
S_table_end == <<"<", "/", "t", "a", "b", "l", "e", ">", "\n">>

\* lines 221-223
GuideHeader ==
    <<"#", "#", " ", "M", "R", " ", "R", "e", "v", "i", "e", "w", "e", "r", " ",
      "G", "u", "i", "d", "e", " ", "{magnifier}", "\n", "\n">>
        \o <<"H", "e", "r", "e", " ", "a", "r", "e", " ", "s", "o", "m", "e", " ", "k",
      "e", "y", " ", "o", "b", "s", "e", "r", "v", "a", "t", "i", "o", "n", "s",
      " ", "t", "o", " ", "a", "i", "d", " ", "t", "h", "e", " ", "r", "e", "v",
      "i", "e", "w", " ", "p", "r", "o", "c", "e", "s", "s", ":", "\n", "\n">>
        \o <<"<", "t", "a", "b", "l", "e", ">", "\n">>

\* value is None or value == "" or value == {} or value == [], line 240
IsEmptyValue(value) ==
    \/ value.t = "none"
    \/ value.t = "str" /\ value.s = <<>>
    \/ value.t = "list" /\ value.items = <<>> /\ value.comps = <<>>

\* bool(value)
Truthy(value) == ~IsEmptyValue(value) /\ ~(value.t = "int" /\ value.n = 0)

\* str(value); of lists the inputs put only the empty one where str is taken
PyStrOf(value) ==
    CASE value.t = "str" -> value.s
      [] value.t = "int" -> IntStr(value.n)
      [] value.t = "none" -> S_none
      [] OTHER -> <<"[", "]">>

\* lines 152-153
is_value_no(value) == value.t = "str" /\ Lower(Strip(value.s)) = S_no

\* key.replace("_", " ").capitalize(), line 244
KeyNice(key) == Capitalize(ReplaceChar(key, "_", " "))

K_effort == <<"e", "s", "t", "i", "m", "a", "t", "e", "d", " ", "e", "f", "f", "o", "r",
      "t", " ", "t", "o", " ", "r", "e", "v", "i", "e", "w">>
K_tests == <<"r", "e", "l", "e", "v", "a", "n", "t", " ", "t", "e", "s", "t", "s">>
K_compliance == <<"i", "s", "s", "u", "e", " ", "c", "o", "m", "p", "l", "i", "a", "n", "c",
      "e", " ", "c", "h", "e", "c", "k">>
K_security == <<"s", "e", "c", "u", "r", "i", "t", "y", " ", "c", "o", "n", "c", "e", "r",
      "n", "s">>
K_key_issues == <<"k", "e", "y", " ", "i", "s", "s", "u", "e", "s", " ", "t", "o", " ", "r",
      "e", "v", "i", "e", "w">>
K_prompt == <<"p", "r", "o", "m", "p", "t", " ", "s", "u", "g", "g", "e", "s", "t", "i",
      "o", "n", " ", "f", "o", "r", " ", "a", "g", "e", "n", "t">>

\* which arm of the if statement of lines 247-351 a key_nice.lower() takes
ArmOfText(t) ==
    CASE Contains(t, K_effort) -> "effort"
      [] Contains(t, K_tests) -> "tests"
      [] Contains(t, K_compliance) -> "compliance"
      [] Contains(t, K_security) -> "security"
      [] Contains(t, K_key_issues) -> "key_issues"
      [] Contains(t, K_prompt) -> "prompt"
      [] OTHER -> "other"

\* the arm a key takes
Arm(key) == CHOOSE arm \in {ArmOfText(t) : t \in {Lower(KeyNice(key))}} : TRUE

SkippedAsEmpty_EveryKey(key, value) == IsEmptyValue(value)

\* lines 240-242: the key is passed over before any arm
SkippedAsEmpty(key, value) ==
    IsEmptyValue(value) /\ Lower(key) # ReplaceChar(K_key_issues, " ", "_")

PyMin(a, b) == IF a <= b THEN a ELSE b
PyMax(a, b) == IF a >= b THEN a ELSE b

ClampEffort_Unclamped(value_int) == value_int

\* max(1, min(5, value_int)), line 253
ClampEffort(value_int) == PyMax(1, PyMin(5, value_int))

\* c * n
Repeat(c, n) == [i \in 1..n |-> c]

\* int(value_str.split(",")[0]), lines 248-250
EffortInt(value) == ParseInt(BeforeFirst(Strip(PyStrOf(value)), ","))

\* lines 253-258
EffortRow(emoji, value) ==
    S_row \o emoji \o S_nbsp_strong \o <<"E", "s", "t", "i", "m", "a", "t", "e", "d", " ", "e", "f", "f", "o", "r",
          "t", " ", "t", "o", " ", "r", "e", "v", "i", "e", "w", "<", "/", "s", "t",
          "r", "o", "n", "g", ">", ":", " ">>
        \o IntStr(ClampEffort(EffortInt(value).n)) \o <<" ">>
        \o Repeat(BlueCircle, ClampEffort(EffortInt(value).n))
        \o Repeat(WhiteCircle, 5 - ClampEffort(EffortInt(value).n))
        \o S_row_end

\* lines 260-266
TestsRow(emoji, value) ==
    S_row \o emoji \o S_nbsp_strong
        \o (IF is_value_no(PyStr(Lower(Strip(PyStrOf(value)))))
            THEN <<"N", "o", " ", "r", "e", "l", "e", "v", "a", "n", "t", " ", "t", "e", "s",
              "t", "s", "<", "/", "s", "t", "r", "o", "n", "g", ">">>
            ELSE <<"M", "R", " ", "c", "o", "n", "t", "a", "i", "n", "s", " ", "t", "e", "s",
              "t", "s", "<", "/", "s", "t", "r", "o", "n", "g", ">">>)
        \o S_row_end

\* the text one issue adds, lines 168-193
ComplianceText(issue) ==
    (IF issue.issue_title # <<>>
     THEN S_strong \o (IF StartsWith(issue.issue_id, <<"#">>) THEN <<>> ELSE <<"#">>)
              \o issue.issue_id \o <<" ", "-", " ">> \o issue.issue_title \o S_strong_end \o S_br
     ELSE <<>>)
    \o (IF issue.issue_description # <<>>
        THEN <<"I", "s", "s", "u", "e", " ", "D", "e", "s", "c", "r", "i", "p", "t", "i",
      "o", "n", ":", " ">> \o issue.issue_description \o S_brbr
        ELSE <<>>)
    \o (IF issue.fully_compliant_points # <<>>
        THEN emphasize_header(<<"F", "u", "l", "l", "y", " ", "c", "o", "m", "p", "l", "i", "a", "n", "t",
      ":", " ">> \o issue.fully_compliant_points) \o S_brbr
        ELSE <<>>)
    \o (IF issue.not_compliant_points # <<>>
        THEN emphasize_header(<<"N", "o", "t", " ", "c", "o", "m", "p", "l", "i", "a", "n", "t", ":", " ">> \o issue.not_compliant_points) \o S_brbr
        ELSE <<>>)
    \o (IF issue.requires_further_human_verification # <<>>
        THEN emphasize_header(<<"N", "e", "e", "d", "s", " ", "v", "e", "r", "i", "f", "i", "c", "a", "t",
      "i", "o", "n", ":", " ">>
                                  \o issue.requires_further_human_verification) \o S_brbr
        ELSE <<>>)
    \o S_br

\* _issue_markdown_logic, lines 155-196
IssueComplianceRow(emoji, value) ==
    S_row \o emoji \o S_nbsp_strong \o <<"I", "s", "s", "u", "e", " ", "c", "o", "m", "p", "l", "i", "a", "n", "c",
          "e", " ", "c", "h", "e", "c", "k", "<", "/", "s", "t", "r", "o", "n", "g",
          ">">>
        \o (IF ~Truthy(value) THEN <<>>
            ELSE S_brbr \o NL
                     \o Concat([i \in 1..Len(value.comps) |-> ComplianceText(value.comps[i])]))
        \o S_row_end

\* lines 270-280
SecurityRow(emoji, value) ==
    S_row \o emoji \o S_nbsp_strong
        \o (IF is_value_no(value)
            THEN <<"N", "o", " ", "s", "e", "c", "u", "r", "i", "t", "y", " ", "c", "o", "n",
              "c", "e", "r", "n", "s", " ", "i", "d", "e", "n", "t", "i", "f", "i", "e",
              "d", "<", "/", "s", "t", "r", "o", "n", "g", ">">>
            ELSE <<"S", "e", "c", "u", "r", "i", "t", "y", " ", "c", "o", "n", "c", "e", "r",
              "n", "s", "<", "/", "s", "t", "r", "o", "n", "g", ">", "<", "b", "r", ">",
              "<", "b", "r", ">", "\n", "\n">>
                     \o emphasize_header(Strip(PyStrOf(value))))
        \o S_row_end

\* lines 341-349
PromptRow(emoji, value) ==
    S_row \o emoji \o S_nbsp_strong
        \o (IF is_value_no(value)
            THEN <<"N", "o", " ", "p", "r", "o", "m", "p", "t", " ", "s", "u", "g", "g", "e",
              "s", "t", "i", "o", "n", " ", "p", "r", "o", "v", "i", "d", "e", "d", "<",
              "/", "s", "t", "r", "o", "n", "g", ">">>
            ELSE <<"P", "r", "o", "m", "p", "t", " ", "s", "u", "g", "g", "e", "s", "t", "i",
              "o", "n", " ", "f", "o", "r", " ", "c", "o", "m", "p", "r", "e", "h", "e",
              "n", "s", "i", "v", "e", " ", "r", "e", "v", "i", "e", "w", " ", "b", "y",
              " ", "a", "g", "e", "n", "t", "<", "/", "s", "t", "r", "o", "n", "g", ">",
              "<", "b", "r", ">", "<", "b", "r", ">", "\n", "\n">>
                     \o emphasize_header(Strip(PyStrOf(value))))
        \o S_row_end

\* line 351
OtherRow(emoji, key_nice, value) ==
    S_row \o emoji \o S_nbsp_strong \o key_nice \o <<"<", "/", "s", "t", "r", "o", "n", "g", ">", ":", " ">> \o PyStrOf(value)
        \o S_row_end

\* lines 210-213
StartIdx(start) == IF start <= 0 THEN 0 ELSE PyMax(start - 1, 0)

EndIdx_Unclamped(end, start_idx, n) == IF end # 0 /\ end > 0 THEN end ELSE start_idx + 1

\* lines 214-215, of a file of n lines
EndIdx(end, start_idx, n) == PyMin(IF end # 0 /\ end > 0 THEN end ELSE start_idx + 1, n)

\* the lines of the snippet, lines 209-218
SnippetLines(content_lines, start, end) ==
    [k \in 1..(EndIdx(end, StartIdx(start), Len(content_lines)) - StartIdx(start)) |->
        Rjust(IntStr(StartIdx(start) + k), 5) \o <<" ">> \o content_lines[StartIdx(start) + k]]

\* _get_snippet, lines 198-219; content is what fetch_file returned
get_snippet(content, path, start, end) ==
    IF path = <<>> THEN <<>>
    ELSE IF ~content.some \/ content.val = <<>> THEN <<>>
    ELSE Join(NL, SnippetLines(Splitlines(content.val), start, end))

\* settings.gitlab.base, a value of the deployment's configuration
GitlabBase == <<"h", "t", "t", "p", "s", ":", "/", "/", "g", "l">>

\* the repository file the inputs refer to, and its content on the branch
F_path == <<"a", ".", "p", "y">>
F_content == <<"x", " ", "=", " ", "1", "\n", "y", " ", "=", " ", "2", "\n", "z", " ",
      "=", " ", "3", "\n">>

\* utils.py lines 55-80, fetch_file: every exception becomes None
fetch_file(up, path) ==
    IF up /\ path = F_path THEN Some(F_content) ELSE NoneStr

\* lines 298-304: the fields of one issue as the loop body reads them
IssueHeader(issue) ==
    IF Lower(Strip(issue.issue_header)) = <<"p", "o", "s", "s", "i", "b", "l", "e", " ", "b", "u", "g">>
    THEN <<"P", "o", "s", "s", "i", "b", "l", "e", " ", "I", "s", "s", "u", "e">>
    ELSE Strip(issue.issue_header)

\* lines 307-317
ReferenceLink(issue, proj_path, source_branch) ==
    IF proj_path = <<>> THEN <<>>
    ELSE get_line_link(GitlabBase, proj_path, source_branch, Strip(issue.relevant_file),
                       issue.start_line, issue.end_line)

\* lines 321-324
HeaderStr(issue, proj_path, source_branch) ==
    IF ReferenceLink(issue, proj_path, source_branch) # <<>>
    THEN <<"<", "a", " ", "h", "r", "e", "f", "=", "'">> \o ReferenceLink(issue, proj_path, source_branch) \o <<"'", ">">>
             \o S_strong \o IssueHeader(issue) \o S_strong_end \o <<"<", "/", "a", ">">>
    ELSE S_strong \o IssueHeader(issue) \o S_strong_end

\* lines 298-337: the text one issue adds
KeyIssueText(issue, proj_path, up, source_branch) ==
    LET relevant_file == Strip(issue.relevant_file)
        snip == get_snippet(fetch_file(up, relevant_file), relevant_file,
                               issue.start_line, issue.end_line)
    IN  (IF snip # <<>>
         THEN <<"<", "d", "e", "t", "a", "i", "l", "s", ">", "<", "s", "u", "m", "m", "a",
      "r", "y", ">">> \o HeaderStr(issue, proj_path, source_branch)
                  \o <<"\n", "\n">> \o Strip(issue.issue_content) \o <<"<", "/", "s", "u", "m", "m", "a", "r", "y", ">", "\n", "\n">>
                  \o <<Backtick, Backtick, Backtick>>
                  \o (IF relevant_file # <<>> THEN AfterLast(relevant_file, ".") ELSE <<>>)
                  \o NL \o snip \o NL \o <<Backtick, Backtick, Backtick>>
                  \o <<"\n", "<", "/", "d", "e", "t", "a", "i", "l", "s", ">">>
         ELSE HeaderStr(issue, proj_path, source_branch) \o S_br
                  \o Strip(issue.issue_content))
        \o <<"\n", "\n">>

\* lines 283-288
NoMajorIssues(value) == is_value_no(value) \/ ~Truthy(value)

\* lines 282-339
KeyIssuesRow(emoji, value, proj_path, up, source_branch) ==
    S_row \o emoji \o S_nbsp_strong
        \o (IF NoMajorIssues(value)
            THEN <<"N", "o", " ", "m", "a", "j", "o", "r", " ", "i", "s", "s", "u", "e", "s",
              " ", "d", "e", "t", "e", "c", "t", "e", "d", "<", "/", "s", "t", "r", "o",
              "n", "g", ">">>
            ELSE <<"R", "e", "c", "o", "m", "m", "e", "n", "d", "e", "d", " ", "f", "o", "c",
              "u", "s", " ", "a", "r", "e", "a", "s", " ", "f", "o", "r", " ", "r", "e",
              "v", "i", "e", "w", "<", "/", "s", "t", "r", "o", "n", "g", ">", "<", "b",
              "r", ">", "<", "b", "r", ">", "\n", "\n">>
                     \o Concat([i \in 1..Len(value.items) |->
                                   KeyIssueText(value.items[i], proj_path, up,
                                                source_branch)]))
        \o S_row_end

\* the row of a key that takes the given arm, lines 247-351
RowOfArm(arm, key, value, proj_path, up, source_branch) ==
    CASE arm = "effort" ->
             IF EffortInt(value).ok THEN EffortRow(EmojiOf(KeyNice(key)), value) ELSE <<>>
      [] arm = "tests" -> TestsRow(EmojiOf(KeyNice(key)), value)
      [] arm = "compliance" -> IssueComplianceRow(EmojiOf(KeyNice(key)), value)
      [] arm = "security" -> SecurityRow(EmojiOf(KeyNice(key)), value)
      [] arm = "key_issues" ->
             KeyIssuesRow(EmojiOf(KeyNice(key)), value, proj_path, up, source_branch)
      [] arm = "prompt" -> PromptRow(EmojiOf(KeyNice(key)), value)
      [] OTHER -> OtherRow(EmojiOf(KeyNice(key)), KeyNice(key), value)

\* what one pass of the loop of line 239 adds to markdown_text
RowFor(key, value, proj_path, up, source_branch) ==
    IF SkippedAsEmpty(key, value) THEN <<>>
    ELSE CHOOSE row \in {RowOfArm(arm, key, value, proj_path, up, source_branch) :
                             arm \in {Arm(key)}} : TRUE

\* _convert_to_markdown of a payload, a sequence of [key, value] in dict order
ConvertToMarkdown(payload, proj_path, up, source_branch) ==
    GuideHeader
        \o Concat([i \in 1..Len(payload) |->
                      RowFor(payload[i].key, payload[i].value, proj_path, up,
                             source_branch)])
        \o S_table_end

----------------------------------------------------------------------------
(* ReviewCommand.run, lines 138-145: the answer is rendered and returned *)

N_compliance == <<"i", "s", "s", "u", "e", "_", "c", "o", "m", "p", "l", "i", "a", "n", "c",
      "e", "_", "c", "h", "e", "c", "k">>
N_effort == <<"e", "s", "t", "i", "m", "a", "t", "e", "d", "_", "e", "f", "f", "o", "r",
      "t", "_", "t", "o", "_", "r", "e", "v", "i", "e", "w">>
N_score == <<"s", "c", "o", "r", "e">>
N_tests == <<"r", "e", "l", "e", "v", "a", "n", "t", "_", "t", "e", "s", "t", "s">>
N_security == <<"s", "e", "c", "u", "r", "i", "t", "y", "_", "c", "o", "n", "c", "e", "r",
      "n", "s">>
N_prompt == <<"p", "r", "o", "m", "p", "t", "_", "s", "u", "g", "g", "e", "s", "t", "i",
      "o", "n", "_", "f", "o", "r", "_", "a", "g", "e", "n", "t">>
N_key_issues == <<"k", "e", "y", "_", "i", "s", "s", "u", "e", "s", "_", "t", "o", "_", "r",
      "e", "v", "i", "e", "w">>

\* the text of a field's name
FieldKey(name) ==
    CASE name = "issue_compliance_check" -> N_compliance
      [] name = "estimated_effort_to_review" -> N_effort
      [] name = "score" -> N_score
      [] name = "relevant_tests" -> N_tests
      [] name = "security_concerns" -> N_security
      [] name = "prompt_suggestion_for_agent" -> N_prompt
      [] name = "key_issues_to_review" -> N_key_issues

\* output_data.model_dump(), line 226, with the keys as text
DumpItems(dump) == [i \in 1..Len(dump) |-> [key |-> FieldKey(dump[i].key), value |-> dump[i].value]]

P_path == <<"g", "/", "p">>

\* lines 141-145
ReviewRender ==
    /\ rpc = "answered"
    /\ \E path \in {<<>>, P_path}, up \in BOOLEAN :
          review_markdown' = ConvertToMarkdown(DumpItems(output_data), path, up, MrBranch)
    /\ rpc' = "returned"
    /\ UNCHANGED <<ReviewInputs, input_data, model_fields, llm_output, output_data, attempts,
                   review_error>>
    /\ UNCHANGED notReviewVars

NextReview ==
    \/ ReviewGatherRaised
    \/ ReviewInputInvalid
    \/ ReviewBuildModel
    \/ ReviewLlmAccepted
    \/ ReviewLlmRejected
    \/ ReviewLlmGaveUp
    \/ ReviewLlmFailed
    \/ ReviewRender

SpecReview == InitReview /\ [][NextReview]_vars

----------------------------------------------------------------------------
(* ReviewCommand._convert_to_markdown as a state machine: the inputs *)

MaxPayloadKeys == 2

V_no == <<"n", "o">>
V_NO_spaced == <<" ", "N", "O", " ">>
V_tests == <<"Y", "e", "s", ",", " ", "a", "d", "d", "e", "d", " ", "u", "n", "i", "t",
      " ", "t", "e", "s", "t", "s">>
V_logged == <<"T", "o", "k", "e", "n", " ", "i", "s", " ", "l", "o", "g", "g", "e", "d">>
V_leak == <<"L", "e", "a", "k", ":", " ", "t", "o", "k", "e", "n", " ", "i", "s", " ",
      "l", "o", "g", "g", "e", "d">>
V_prompt == <<"C", "h", "e", "c", "k", " ", "t", "h", "e", " ", "a", "u", "t", "h", " ",
      "f", "l", "o", "w">>
V_effort_csv == <<"4", ",", " ", "m", "a", "n", "y", " ", "f", "i", "l", "e", "s">>
V_high == <<"h", "i", "g", "h">>

\* KeyIssuesComponentLink dicts, lines 39-44
I_bug ==
    [relevant_file |-> F_path, issue_header |-> <<"p", "o", "s", "s", "i", "b", "l", "e", " ", "b", "u", "g">>,
     issue_content |-> <<"y", " ", "i", "s", " ", "u", "n", "u", "s", "e", "d">>, start_line |-> 2, end_line |-> 3]
I_naming ==
    [relevant_file |-> <<>>, issue_header |-> <<"N", "a", "m", "i", "n", "g">>,
     issue_content |-> <<"R", "e", "n", "a", "m", "e", " ", "x">>, start_line |-> 0, end_line |-> 0]

\* an IssueCompliance dict, lines 47-53
C_login ==
    [issue_id |-> <<"1", "2">>, issue_title |-> <<"F", "i", "x", " ", "l", "o", "g", "i", "n">>,
     issue_description |-> <<"L", "o", "g", "i", "n", " ", "f", "a", "i", "l", "s">>,
     fully_compliant_points |-> <<"H", "a", "n", "d", "l", "e", "s", " ", "e", "m", "p", "t", "y", " ", "p",
      "a", "s", "s", "w", "o", "r", "d">>,
     not_compliant_points |-> <<>>,
     requires_further_human_verification |-> <<>>]

EffortValues ==
    {PyInt(0 - 2), PyInt(0), PyInt(1), PyInt(3), PyInt(5), PyInt(6), PyInt(7),
     PyStr(V_effort_csv), PyStr(V_high), PyNone}

\* the keys the payloads use, each with the values it takes
PayloadItems ==
    {[key |-> N_effort, value |-> v] : v \in EffortValues}
    \cup {[key |-> N_score, value |-> v] : v \in {PyStr(V_85), PyStr(<<>>)}}
    \cup {[key |-> N_tests, value |-> v] :
             v \in {PyStr(V_no), PyStr(V_NO_spaced), PyStr(V_tests), PyNone}}
    \cup {[key |-> N_security, value |-> v] :
             v \in {PyStr(V_No), PyStr(V_logged), PyStr(V_leak), PyStr(<<>>)}}
    \cup {[key |-> N_prompt, value |-> v] : v \in {PyStr(V_no), PyStr(V_prompt)}}
    \cup {[key |-> N_compliance, value |-> v] : v \in {PyComps(<<C_login>>), PyList(<<>>)}}
    \cup {[key |-> N_key_issues, value |-> v] :
             v \in {PyList(<<>>), PyNone, PyStr(V_No), PyList(<<I_bug>>),
                    PyList(<<I_bug, I_naming>>)}}

\* a dict has each key once
DistinctKeys(payload) ==
    \A i, j \in 1..Len(payload) : payload[i].key = payload[j].key => i = j

Payloads == {q \in SeqsUpTo(PayloadItems, MaxPayloadKeys) : DistinctKeys(q)}

\* the dumped output_data, lines 225-229: its "review" entry or None, and its
\* other entries
RawOutputs ==
    {[review |-> NoneStr, items |-> q] : q \in Payloads}
    \cup {[review |-> Some(q), items |-> r] :
             q \in {p \in Payloads : Len(p) <= 1},
             r \in {<<>>, <<[key |-> N_score, value |-> PyStr(V_85)]>>}}

InitMarkdown ==
    /\ raw_output \in RawOutputs
    /\ repo_up \in BOOLEAN
    /\ mpc = "call"
    /\ review_payload = <<>>
    /\ project_path = <<>>
    /\ payload_no = 0
    /\ added = <<>>
    /\ markdown_text = <<>>
    /\ NotMdIdle

MdInputs == <<raw_output, repo_up>>

\* raw_output.get("review", raw_output), line 230
ReviewPayload(raw) == IF raw.review.some THEN raw.review.val ELSE raw.items

\* lines 221-234: the header, the payload, the project's path
MdStart ==
    /\ mpc = "call"
    /\ markdown_text' = GuideHeader
    /\ review_payload' = ReviewPayload(raw_output)
    /\ project_path' = P_path
    /\ mpc' = "loop"
    /\ UNCHANGED <<MdInputs, payload_no, added>>
    /\ UNCHANGED notMdVars

\* lines 221-237: the project fetch raises
MdStartProjectFailed ==
    /\ mpc = "call"
    /\ markdown_text' = GuideHeader
    /\ review_payload' = ReviewPayload(raw_output)
    /\ project_path' = <<>>
    /\ mpc' = "loop"
    /\ UNCHANGED <<MdInputs, payload_no, added>>
    /\ UNCHANGED notMdVars

\* the item the for statement of line 239 draws next
MdDraws == mpc = "loop" /\ payload_no < Len(review_payload)
MdKey == review_payload[payload_no + 1].key
MdValue == review_payload[payload_no + 1].value
MdEmoji == EmojiOf(KeyNice(MdKey))

\* the arm of each key the payloads use, worked out once
ArmOfKey == [key \in {item.key : item \in PayloadItems} |-> Arm(key)]
MdArm == ArmOfKey[MdKey]

\* the pass is over, having added row to markdown_text
MdAdds(row) ==
    /\ markdown_text' = markdown_text \o row
    /\ added' = Append(added, row)
    /\ payload_no' = payload_no + 1
    /\ UNCHANGED <<MdInputs, mpc, review_payload, project_path>>
    /\ UNCHANGED notMdVars

\* lines 240-242
MdSkipEmpty ==
    /\ MdDraws
    /\ SkippedAsEmpty(MdKey, MdValue)
    /\ MdAdds(<<>>)

\* lines 247-258
MdEffort ==
    /\ MdDraws
    /\ ~SkippedAsEmpty(MdKey, MdValue)
    /\ MdArm = "effort"
    /\ EffortInt(MdValue).ok
    /\ MdAdds(EffortRow(MdEmoji, MdValue))

\* lines 247-252: int() raises and the pass is abandoned
MdEffortUnparsable ==
    /\ MdDraws
    /\ ~SkippedAsEmpty(MdKey, MdValue)
    /\ MdArm = "effort"
    /\ ~EffortInt(MdValue).ok
    /\ MdAdds(<<>>)

\* lines 259-266
MdTests ==
    /\ MdDraws
    /\ ~SkippedAsEmpty(MdKey, MdValue)
    /\ MdArm = "tests"
    /\ MdAdds(TestsRow(MdEmoji, MdValue))

\* lines 267-268
MdIssueCompliance ==
    /\ MdDraws
    /\ ~SkippedAsEmpty(MdKey, MdValue)
    /\ MdArm = "compliance"
    /\ MdAdds(IssueComplianceRow(MdEmoji, MdValue))

\* lines 269-280
MdSecurity ==
    /\ MdDraws
    /\ ~SkippedAsEmpty(MdKey, MdValue)
    /\ MdArm = "security"
    /\ MdAdds(SecurityRow(MdEmoji, MdValue))

\* lines 281-288
MdKeyIssuesNone ==
    /\ MdDraws
    /\ ~SkippedAsEmpty(MdKey, MdValue)
    /\ MdArm = "key_issues"
    /\ NoMajorIssues(MdValue)
    /\ MdAdds(KeyIssuesRow(MdEmoji, MdValue, project_path, repo_up, MrBranch))

\* lines 281-339
MdKeyIssues ==
    /\ MdDraws
    /\ ~SkippedAsEmpty(MdKey, MdValue)
    /\ MdArm = "key_issues"
    /\ ~NoMajorIssues(MdValue)
    /\ MdAdds(KeyIssuesRow(MdEmoji, MdValue, project_path, repo_up, MrBranch))

\* lines 340-349
MdPrompt ==
    /\ MdDraws
    /\ ~SkippedAsEmpty(MdKey, MdValue)
    /\ MdArm = "prompt"
    /\ MdAdds(PromptRow(MdEmoji, MdValue))

\* lines 350-351
MdOther ==
    /\ MdDraws
    /\ ~SkippedAsEmpty(MdKey, MdValue)
    /\ MdArm = "other"
    /\ MdAdds(OtherRow(MdEmoji, KeyNice(MdKey), MdValue))

\* lines 353-354
MdReturn ==
    /\ mpc = "loop"
    /\ payload_no = Len(review_payload)
    /\ markdown_text' = markdown_text \o S_table_end
    /\ mpc' = "returned"
    /\ UNCHANGED <<MdInputs, review_payload, project_path, payload_no, added>>
    /\ UNCHANGED notMdVars

NextMarkdown ==
    \/ MdStart
    \/ MdStartProjectFailed
    \/ MdSkipEmpty
    \/ MdEffort
    \/ MdEffortUnparsable
    \/ MdTests
    \/ MdIssueCompliance
    \/ MdSecurity
    \/ MdKeyIssuesNone
    \/ MdKeyIssues
    \/ MdPrompt
    \/ MdOther
    \/ MdReturn

SpecMarkdown == InitMarkdown /\ [][NextMarkdown]_vars

----------------------------------------------------------------------------
(* _get_snippet, review.py lines 198-219, as a state machine *)

MaxFileLines == 3

LineTexts == {<<"x", " ", "=", " ", "1">>, <<"y">>, <<>>}

\* what fetch_file returns: None, or the text of a file of 0..MaxFileLines
\* lines with or without a newline at its end
RepoFiles ==
    {NoneStr} \cup {Some(Join(NL, ls) \o tail) : ls \in SeqsUpTo(LineTexts, MaxFileLines),
                                               tail \in {<<>>, NL}}

LineArgs == (0 - 1)..(MaxFileLines + 2)

InitSnippet ==
    /\ file_path \in {<<>>, F_path}
    /\ snip_start \in LineArgs
    /\ snip_end \in LineArgs
    /\ repo_file \in RepoFiles
    /\ spc = "call"
    /\ file_lines = <<>>
    /\ idx = 0
    /\ end_idx = 0
    /\ reads = {}
    /\ snippet_lines = <<>>
    /\ snippet = <<>>
    /\ NotSnipIdle

SnipInputs == <<file_path, snip_start, snip_end, repo_file>>

\* lines 199-200
SnipNoPath ==
    /\ spc = "call"
    /\ file_path = <<>>
    /\ snippet' = <<>>
    /\ spc' = "returned"
    /\ UNCHANGED <<SnipInputs, file_lines, idx, end_idx, reads, snippet_lines>>
    /\ UNCHANGED notSnipVars

\* lines 201-208: fetch_file caught an exception and returned None
SnipFetchFailed ==
    /\ spc = "call"
    /\ file_path # <<>>
    /\ ~repo_file.some
    /\ snippet' = <<>>
    /\ spc' = "returned"
    /\ UNCHANGED <<SnipInputs, file_lines, idx, end_idx, reads, snippet_lines>>
    /\ UNCHANGED notSnipVars

\* lines 201-208: the file is empty
SnipEmptyFile ==
    /\ spc = "call"
    /\ file_path # <<>>
    /\ repo_file.some
    /\ repo_file.val = <<>>
    /\ snippet' = <<>>
    /\ spc' = "returned"
    /\ UNCHANGED <<SnipInputs, file_lines, idx, end_idx, reads, snippet_lines>>
    /\ UNCHANGED notSnipVars

\* lines 201-216: the lines and the range of the loop
SnipFetched ==
    /\ spc = "call"
    /\ file_path # <<>>
    /\ repo_file.some
    /\ repo_file.val # <<>>
    /\ file_lines' = Splitlines(repo_file.val)
    /\ idx' = StartIdx(snip_start)
    /\ end_idx' = EndIdx(snip_end, StartIdx(snip_start), Len(file_lines'))
    /\ spc' = "loop"
    /\ UNCHANGED <<SnipInputs, reads, snippet_lines, snippet>>
    /\ UNCHANGED notSnipVars

\* lines[i] of a list of n items does not raise IndexError
PyIndexOk(i, n) == 0 - n <= i /\ i < n

\* lines 217-218: one line is read and labelled, or the read raises
SnipLine ==
    /\ spc = "loop"
    /\ idx < end_idx
    /\ reads' = reads \cup {idx}
    /\ IF PyIndexOk(idx, Len(file_lines))
       THEN /\ snippet_lines' =
                   Append(snippet_lines,
                          Rjust(IntStr(idx + 1), 5) \o <<" ">>
                              \o file_lines[IF idx >= 0 THEN idx + 1
                                            ELSE Len(file_lines) + idx + 1])
            /\ idx' = idx + 1
            /\ spc' = "loop"
       ELSE /\ spc' = "raised"
            /\ UNCHANGED <<snippet_lines, idx>>
    /\ UNCHANGED <<SnipInputs, file_lines, end_idx, snippet>>
    /\ UNCHANGED notSnipVars

\* line 219
SnipReturn ==
    /\ spc = "loop"
    /\ idx >= end_idx
    /\ snippet' = Join(NL, snippet_lines)
    /\ spc' = "returned"
    /\ UNCHANGED <<SnipInputs, file_lines, idx, end_idx, reads, snippet_lines>>
    /\ UNCHANGED notSnipVars

NextSnippet ==
    \/ SnipNoPath
    \/ SnipFetchFailed
    \/ SnipEmptyFile
    \/ SnipFetched
    \/ SnipLine
    \/ SnipReturn

SpecSnippet == InitSnippet /\ [][NextSnippet]_vars

----------------------------------------------------------------------------
(* handle_note_event and handle_merge_request_event                        *)
(* (app/services/event_handlers.py).  The agents are the environment: an   *)
(* agent run returns a text or raises.  GitLab accepts the note writes.    *)

\* the Bot the webhook was registered for
BotName == <<"R", "e", "v">>
BotUserName == <<"b", "o", "t">>
BotUserId == 7
OtherUserId == BotUserId + 1

MaxNotes == 2
MaxReviewers == 1

\* settings.max_chat_history
max_chat_history == 10

S_MergeRequest == <<"M", "e", "r", "g", "e", "R", "e", "q", "u", "e", "s", "t">>
S_Issue == <<"I", "s", "s", "u", "e">>
S_update == <<"u", "p", "d", "a", "t", "e">>
S_open == <<"o", "p", "e", "n">>
S_wait_note == <<"P", "r", "o", "c", "e", "s", "s", "i", "n", "g", " ", "y", "o", "u", "r",
      " ", "r", "e", "q", "u", "e", "s", "t", ".", ".", ".">>
S_wait_mr == <<"A", "n", "a", "l", "y", "z", "i", "n", "g", " ", "t", "h", "e", " ", "m",
      "e", "r", "g", "e", " ", "r", "e", "q", "u", "e", "s", "t", ".", ".", ".">>
S_error_note == <<"E", "r", "r", "o", "r", " ", "p", "r", "o", "c", "e", "s", "s", "i", "n",
      "g", " ", "y", "o", "u", "r", " ", "r", "e", "q", "u", "e", "s", "t", ":",
      " ">>
S_error_mr == <<"E", "r", "r", "o", "r", " ", "p", "r", "o", "c", "e", "s", "s", "i", "n",
      "g", " ", "t", "h", "e", " ", "m", "e", "r", "g", "e", " ", "r", "e", "q",
      "u", "e", "s", "t", ":", " ">>

\* str(e) of the TypeError of line 180: run is called without project_id and mr_iid
S_missing_args ==
    <<"C", "o", "m", "m", "a", "n", "d", "A", "g", "e", "n", "t", ".", "r", "u",
      "n", "(", ")", " ", "m", "i", "s", "s", "i", "n", "g", " ", "2", " ", "r",
      "e", "q", "u", "i", "r", "e", "d", " ", "p", "o", "s", "i", "t", "i", "o",
      "n", "a", "l", " ", "a", "r", "g", "u", "m", "e", "n", "t", "s", ":", " ",
      "'", "p", "r", "o", "j", "e", "c", "t", "_", "i", "d", "'", " ", "a", "n",
      "d", " ", "'", "m", "r", "_", "i", "i", "d", "'">>

\* what a run of the SmartAgent returns, and str(e) of what it raises
SmartOutputs == {<<"L", "G", "T", "M">>, <<"S", "e", "e", " ", "l", "i", "n", "e", " ", "3">>}
SmartErrors == {<<"L", "L", "M", " ", "c", "a", "l", "l", " ", "f", "a", "i", "l", "e", "d">>, <<"I", "n", "v", "a", "l", "i", "d", " ", "o", "u", "t", "p", "u", "t">>}

NoteableTypes == {S_MergeRequest, S_Issue}
NoteContents ==
    {<<"@", "b", "o", "t", "/", "r", "e", "v", "i", "e", "w">>,
     <<" ", "@", "R", "e", "v", "/", "x", "y", "z">>,
     <<"@", "b", "o", "t", "/">>,
     <<"@", "B", "O", "T", " ", "h", "i">>,
     <<"h", "i", " ", "@", "r", "e", "v">>,
     <<"h", "e", "l", "l", "o">>}
NoteBodies == {<<"@", "b", "o", "t", " ", "w", "h", "y">>, <<"d", "o", "n", "e">>}

Reviewers == [id : {BotUserId, OtherUserId}, re_requested : BOOLEAN]
ReviewerLists == SeqsUpTo(Reviewers, MaxReviewers)

\* changes["reviewers"] as GitLab sends it (a dict of two lists), and as a list
ReviewersDict(previous, current) ==
    [t |-> "dict", previous |-> previous, current |-> current, items |-> <<>>]
ReviewersList(items) == [t |-> "list", previous |-> <<>>, current |-> <<>>, items |-> items]

ChangesValues ==
    {NoChanges, [empty |-> FALSE, reviewers |-> NoReviewers]}
    \cup {[empty |-> FALSE, reviewers |-> ReviewersDict(p, c)] : p \in ReviewerLists, c \in ReviewerLists}
    \cup {[empty |-> FALSE, reviewers |-> ReviewersList(l)] : l \in ReviewerLists}

Actions == {NoneStr, Some(S_open), Some(S_update)}

\* bool(changes.get("reviewers"))
ReviewersTruthy(ch) ==
    CASE ch.reviewers.t = "none" -> FALSE
      [] ch.reviewers.t = "dict" -> TRUE
      [] ch.reviewers.t = "list" -> ch.reviewers.items # <<>>

\* {reviewer["id"] for reviewer in l}
ReviewerIds(l) == {l[i].id : i \in 1..Len(l)}

\* lines 37-50: the bot is among the current reviewers and not among the previous ones
NewlyAdded(ch) ==
    /\ ~ch.empty
    /\ ReviewersTruthy(ch)
    /\ BotUserId \in ReviewerIds(ch.reviewers.current)
    /\ BotUserId \notin ReviewerIds(ch.reviewers.previous)

\* lines 53-62: an update whose changes["reviewers"] is a list that holds the bot
\* with re_requested True
ReRequested(act, ch) ==
    /\ act = Some(S_update)
    /\ ~ch.empty
    /\ ReviewersTruthy(ch)
    /\ ch.reviewers.t = "list"
    /\ \E i \in 1..Len(ch.reviewers.items) :
          /\ ch.reviewers.items[i].id = BotUserId
          /\ ch.reviewers.items[i].re_requested = TRUE

\* line 41: .get of a list raises AttributeError
ReviewersGetRaises(ch) == ~ch.empty /\ ReviewersTruthy(ch) /\ ch.reviewers.t = "list"

\* trigger at line 64
Trigger(act, ch) == NewlyAdded(ch) \/ ReRequested(act, ch)

name_lower == Lower(BotName)
username_lower == Lower(BotUserName)
note_lower == Lower(Strip(note_content))

\* f"@{name_lower}" in t or f"@{username_lower}" in t
Mentions(t) == Contains(t, <<"@">> \o name_lower) \/ Contains(t, <<"@">> \o username_lower)

\* lines 150-152
IsCommand(t) ==
    \/ StartsWith(t, <<"@">> \o name_lower \o <<"/">>)
    \/ StartsWith(t, <<"@">> \o username_lower \o <<"/">>)

\* lines 173-178
CommandOf(content) ==
    IF StartsWith(Lower(Strip(content)), <<"@">> \o name_lower \o <<"/">>)
    THEN Strip(DropPrefix(Strip(content), Len(<<"@">> \o BotName \o <<"/">>)))
    ELSE IF StartsWith(Lower(Strip(content)), <<"@">> \o username_lower \o <<"/">>)
    THEN Strip(DropPrefix(Strip(content), Len(<<"@">> \o BotUserName \o <<"/">>)))
    ELSE Strip(content)

ModelRequest(body) == [kind |-> "ModelRequest", content |-> body]
ModelResponse(body) == [kind |-> "ModelResponse", content |-> body]

\* lines 193-199
MessageOf(body) == IF Mentions(Lower(body)) THEN ModelRequest(body) ELSE ModelResponse(body)

RECURSIVE BuildHistory(_, _)
\* lines 189-199: the loop over reversed(notes), from the note at index i down
BuildHistory(h, i) ==
    IF i = 0 \/ Len(h) > max_chat_history THEN h
    ELSE BuildHistory(Append(h, MessageOf(notes[i])), i - 1)

\* lines 201-203
PopFirst(h) == IF h # <<>> THEN Tail(h) ELSE h

InitHandlers ==
    /\ NotHandlerIdle
    /\ event \in {"note", "merge_request"}
    /\ noteable_type \in IF event = "note" THEN NoteableTypes ELSE {<<>>}
    /\ note_content \in IF event = "note" THEN NoteContents ELSE {<<>>}
    /\ notes \in IF event = "note"
                 THEN {previous \o <<note_content>> : previous \in SeqsUpTo(NoteBodies, MaxNotes)}
                 ELSE {<<>>}
    /\ action \in IF event = "merge_request" THEN Actions ELSE {NoneStr}
    /\ changes \in IF event = "merge_request" THEN ChangesValues ELSE {NoChanges}
    /\ hpc = "start"
    /\ is_command = FALSE
    /\ input_command = <<>>
    /\ history = <<>>
    /\ wait_note = "none"
    /\ agent_calls = <<>>
    /\ reply = NoneStr
    /\ replies = <<>>
    /\ gitlab_writes = <<>>
    /\ raised = ""

payloadVars == <<event, noteable_type, note_content, notes, action, changes>>

Create(body) == [op |-> "create", body |-> body]
Delete(body) == [op |-> "delete", body |-> body]
Call(agent, outcome, messages) ==
    [agent |-> agent, outcome |-> outcome, message_history |-> messages]

\* lines 126-128
NoteNotOnMergeRequest ==
    /\ event = "note" /\ hpc = "start"
    /\ noteable_type # S_MergeRequest
    /\ hpc' = "returned"
    /\ UNCHANGED <<payloadVars, is_command, input_command, history, wait_note, agent_calls,
                   reply, replies, gitlab_writes, raised>>
    /\ UNCHANGED notHandlerVars

\* lines 140-142
NoteBotNotMentioned ==
    /\ event = "note" /\ hpc = "start"
    /\ noteable_type = S_MergeRequest
    /\ ~Mentions(note_lower)
    /\ hpc' = "returned"
    /\ UNCHANGED <<payloadVars, is_command, input_command, history, wait_note, agent_calls,
                   reply, replies, gitlab_writes, raised>>
    /\ UNCHANGED notHandlerVars

\* lines 144-160
NoteWait ==
    /\ event = "note" /\ hpc = "start"
    /\ noteable_type = S_MergeRequest
    /\ Mentions(note_lower)
    /\ is_command' = IsCommand(note_lower)
    /\ wait_note' = "exists"
    /\ gitlab_writes' = Append(gitlab_writes, Create(S_wait_note))
    /\ hpc' = "waiting"
    /\ UNCHANGED <<payloadVars, input_command, history, agent_calls, reply, replies, raised>>
    /\ UNCHANGED notHandlerVars

\* lines 163-180 and 219-223: the call of line 180 raises TypeError
NoteCommand ==
    /\ event = "note" /\ hpc = "waiting"
    /\ is_command
    /\ input_command' = CommandOf(note_content)
    /\ agent_calls' = Append(agent_calls, Call("CommandAgent", "raised", <<>>))
    /\ reply' = Some(S_error_note \o S_missing_args)
    /\ hpc' = "finally"
    /\ UNCHANGED <<payloadVars, is_command, history, wait_note, replies, gitlab_writes, raised>>
    /\ UNCHANGED notHandlerVars

\* lines 185-210
NoteHistory ==
    /\ event = "note" /\ hpc = "waiting"
    /\ ~is_command
    /\ history' = PopFirst(BuildHistory(<<>>, Len(notes)))
    /\ hpc' = "smart"
    /\ UNCHANGED <<payloadVars, is_command, input_command, wait_note, agent_calls, reply,
                   replies, gitlab_writes, raised>>
    /\ UNCHANGED notHandlerVars

\* lines 212-217: the agent returns
NoteSmartReturns ==
    /\ event = "note" /\ hpc = "smart"
    /\ \E output \in SmartOutputs :
          /\ agent_calls' = Append(agent_calls, Call("SmartAgent", "returned", history))
          /\ reply' = Some(output)
    /\ hpc' = "finally"
    /\ UNCHANGED <<payloadVars, is_command, input_command, history, wait_note, replies,
                   gitlab_writes, raised>>
    /\ UNCHANGED notHandlerVars

\* a handler without the except clause of lines 219-223
NoteSmartRaises_Uncaught ==
    /\ event = "note" /\ hpc = "smart"
    /\ agent_calls' = Append(agent_calls, Call("SmartAgent", "raised", history))
    /\ raised' = "Exception"
    /\ hpc' = "raised"
    /\ UNCHANGED <<payloadVars, is_command, input_command, history, wait_note, reply, replies,
                   gitlab_writes>>
    /\ UNCHANGED notHandlerVars

\* lines 212-223: the agent raises
NoteSmartRaises ==
    /\ event = "note" /\ hpc = "smart"
    /\ \E e \in SmartErrors :
          /\ agent_calls' = Append(agent_calls, Call("SmartAgent", "raised", history))
          /\ reply' = Some(S_error_note \o e)
    /\ hpc' = "finally"
    /\ UNCHANGED <<payloadVars, is_command, input_command, history, wait_note, replies,
                   gitlab_writes, raised>>
    /\ UNCHANGED notHandlerVars

\* lines 225-226
NoteDeleteWait ==
    /\ event = "note" /\ hpc = "finally"
    /\ wait_note' = "deleted"
    /\ gitlab_writes' = Append(gitlab_writes, Delete(S_wait_note))
    /\ hpc' = "reply"
    /\ UNCHANGED <<payloadVars, is_command, input_command, history, agent_calls, reply,
                   replies, raised>>
    /\ UNCHANGED notHandlerVars

\* line 229
NoteReply ==
    /\ event = "note" /\ hpc = "reply"
    /\ replies' = Append(replies, reply.val)
    /\ gitlab_writes' = Append(gitlab_writes, Create(reply.val))
    /\ hpc' = "returned"
    /\ UNCHANGED <<payloadVars, is_command, input_command, history, wait_note, agent_calls,
                   reply, raised>>
    /\ UNCHANGED notHandlerVars

\* line 33: payload["object_attributes"]["action"] of a payload without it
MrNoAction ==
    /\ event = "merge_request" /\ hpc = "start"
    /\ ~action.some
    /\ raised' = "KeyError"
    /\ hpc' = "raised"
    /\ UNCHANGED <<payloadVars, is_command, input_command, history, wait_note, agent_calls,
                   reply, replies, gitlab_writes>>
    /\ UNCHANGED notHandlerVars

\* line 41
MrReviewersList ==
    /\ event = "merge_request" /\ hpc = "start"
    /\ action.some
    /\ ReviewersGetRaises(changes)
    /\ raised' = "AttributeError"
    /\ hpc' = "raised"
    /\ UNCHANGED <<payloadVars, is_command, input_command, history, wait_note, agent_calls,
                   reply, replies, gitlab_writes>>
    /\ UNCHANGED notHandlerVars

\* lines 64-66
MrNoTrigger ==
    /\ event = "merge_request" /\ hpc = "start"
    /\ action.some
    /\ ~ReviewersGetRaises(changes)
    /\ ~Trigger(action, changes)
    /\ hpc' = "returned"
    /\ UNCHANGED <<payloadVars, is_command, input_command, history, wait_note, agent_calls,
                   reply, replies, gitlab_writes, raised>>
    /\ UNCHANGED notHandlerVars

\* lines 68-89
MrWait ==
    /\ event = "merge_request" /\ hpc = "start"
    /\ action.some
    /\ ~ReviewersGetRaises(changes)
    /\ Trigger(action, changes)
    /\ wait_note' = "exists"
    /\ gitlab_writes' = Append(gitlab_writes, Create(S_wait_mr))
    /\ hpc' = "smart"
    /\ UNCHANGED <<payloadVars, is_command, input_command, history, agent_calls, reply,
                   replies, raised>>
    /\ UNCHANGED notHandlerVars

\* lines 92-96: the agent returns
MrSmartReturns ==
    /\ event = "merge_request" /\ hpc = "smart"
    /\ \E output \in SmartOutputs :
          /\ agent_calls' = Append(agent_calls, Call("SmartAgent", "returned", <<>>))
          /\ reply' = Some(output)
    /\ hpc' = "finally"
    /\ UNCHANGED <<payloadVars, is_command, input_command, history, wait_note, replies,
                   gitlab_writes, raised>>
    /\ UNCHANGED notHandlerVars

\* lines 92-101: the agent raises
MrSmartRaises ==
    /\ event = "merge_request" /\ hpc = "smart"
    /\ \E e \in SmartErrors :
          /\ agent_calls' = Append(agent_calls, Call("SmartAgent", "raised", <<>>))
          /\ reply' = Some(S_error_mr \o e)
    /\ hpc' = "finally"
    /\ UNCHANGED <<payloadVars, is_command, input_command, history, wait_note, replies,
                   gitlab_writes, raised>>
    /\ UNCHANGED notHandlerVars

\* a handler without the finally clause of lines 102-104
MrDeleteWait_Skipped ==
    /\ event = "merge_request" /\ hpc = "finally"
    /\ hpc' = "reply"
    /\ UNCHANGED <<payloadVars, is_command, input_command, history, wait_note, agent_calls,
                   reply, replies, gitlab_writes, raised>>
    /\ UNCHANGED notHandlerVars

\* lines 102-104
MrDeleteWait ==
    /\ event = "merge_request" /\ hpc = "finally"
    /\ wait_note' = "deleted"
    /\ gitlab_writes' = Append(gitlab_writes, Delete(S_wait_mr))
    /\ hpc' = "reply"
    /\ UNCHANGED <<payloadVars, is_command, input_command, history, agent_calls, reply,
                   replies, raised>>
    /\ UNCHANGED notHandlerVars

\* lines 106-109
MrReply ==
    /\ event = "merge_request" /\ hpc = "reply"
    /\ replies' = Append(replies, reply.val)
    /\ gitlab_writes' = Append(gitlab_writes, Create(reply.val))
    /\ hpc' = "returned"
    /\ UNCHANGED <<payloadVars, is_command, input_command, history, wait_note, agent_calls,
                   reply, raised>>
    /\ UNCHANGED notHandlerVars

NextHandlers ==
    \/ NoteNotOnMergeRequest
    \/ NoteBotNotMentioned
    \/ NoteWait
    \/ NoteCommand
    \/ NoteHistory
    \/ NoteSmartReturns
    \/ NoteSmartRaises
    \/ NoteDeleteWait
    \/ NoteReply
    \/ MrNoAction
    \/ MrReviewersList
    \/ MrNoTrigger
    \/ MrWait
    \/ MrSmartReturns
    \/ MrSmartRaises
    \/ MrDeleteWait
    \/ MrReply

SpecHandlers == InitHandlers /\ [][NextHandlers]_vars

----------------------------------------------------------------------------
(* webhook (app/api/routes/webhooks.py), the route every GitLab delivery   *)
(* enters.                                                                 *)

\* the bots collection: gitlab_user_id -> gitlab_webhook_secret (nullable)
BotSecrets == (BotUserId :> Some(<<"k", "1">>)) @@ (OtherUserId :> NoneStr)
UserIds == {BotUserId, OtherUserId, OtherUserId + 1}
Tokens == {NoneStr, Some(<<>>), Some(<<"k", "1">>), Some(<<"k", "2">>)}
EventTypes == {"Merge Request Hook", "Note Hook", "Push Hook", ""}
RequestBodies == {"invalid", "note on issue", "note on merge request", "merge request"}

\* EVENT_HANDLERS, lines 16-19
EVENT_HANDLERS ==
    [e \in {"Merge Request Hook", "Note Hook"} |->
        IF e = "Note Hook" THEN "handle_note_event" ELSE "handle_merge_request_event"]

\* the parameters of both handlers, none with a default
\* (event_handlers.py:19-21, 112-114)
HandlerParams == <<"bot", "payload", "mongo_db">>
\* the arguments of the call of line 51
HandlerArgs == <<"bot", "payload">>

\* line 27: the bot with this gitlab_user_id exists
BotFound == bot_user_id \in DOMAIN BotSecrets
\* line 36
TokenRejected ==
    \/ ~gitlab_token.some
    \/ gitlab_token.val = <<>>
    \/ gitlab_token # BotSecrets[bot_user_id]

InitWebhook ==
    /\ NotWebhookIdle
    /\ bot_user_id \in UserIds
    /\ gitlab_token \in Tokens
    /\ event_type \in EventTypes
    /\ request_body \in RequestBodies
    /\ wpc = "start"
    /\ status_code = 0
    /\ responses = 0
    /\ handler_calls = <<>>

requestVars == <<bot_user_id, gitlab_token, event_type, request_body>>

\* lines 27-32
WebhookNoBot ==
    /\ wpc = "start"
    /\ ~BotFound
    /\ status_code' = 404
    /\ responses' = responses + 1
    /\ wpc' = "done"
    /\ UNCHANGED <<requestVars, handler_calls>>
    /\ UNCHANGED notWebhookVars

\* lines 35-41
WebhookBadToken ==
    /\ wpc = "start"
    /\ BotFound
    /\ TokenRejected
    /\ status_code' = 401
    /\ responses' = responses + 1
    /\ wpc' = "done"
    /\ UNCHANGED <<requestVars, handler_calls>>
    /\ UNCHANGED notWebhookVars

\* lines 27-41 for a known bot and its token
WebhookAuthorized ==
    /\ wpc = "start"
    /\ BotFound
    /\ ~TokenRejected
    /\ wpc' = "dispatch"
    /\ UNCHANGED <<requestVars, status_code, responses, handler_calls>>
    /\ UNCHANGED notWebhookVars

\* line 45: request.json() raises for a body that is not JSON; nothing in the
\* route catches it and the framework answers 500
WebhookBadBody ==
    /\ wpc = "dispatch"
    /\ request_body = "invalid"
    /\ status_code' = 500
    /\ responses' = responses + 1
    /\ wpc' = "done"
    /\ UNCHANGED <<requestVars, handler_calls>>
    /\ UNCHANGED notWebhookVars

\* lines 48-61: the call of line 51 binds its arguments to the handler's
\* parameters; with fewer arguments than parameters Python raises TypeError
\* before the handler's body is entered, and lines 55-60 answer 500
WebhookHandler ==
    /\ wpc = "dispatch"
    /\ request_body # "invalid"
    /\ event_type \in DOMAIN EVENT_HANDLERS
    /\ handler_calls' = Append(handler_calls,
                               [handler |-> EVENT_HANDLERS[event_type],
                                entered |-> Len(HandlerArgs) = Len(HandlerParams)])
    /\ Len(HandlerArgs) < Len(HandlerParams)
    /\ status_code' = 500
    /\ responses' = responses + 1
    /\ wpc' = "done"
    /\ UNCHANGED requestVars
    /\ UNCHANGED notWebhookVars

\* lines 63-65
WebhookUnhandled ==
    /\ wpc = "dispatch"
    /\ request_body # "invalid"
    /\ event_type \notin DOMAIN EVENT_HANDLERS
    /\ status_code' = 204
    /\ responses' = responses + 1
    /\ wpc' = "done"
    /\ UNCHANGED <<requestVars, handler_calls>>
    /\ UNCHANGED notWebhookVars

NextWebhook ==
    \/ WebhookNoBot
    \/ WebhookBadToken
    \/ WebhookAuthorized
    \/ WebhookBadBody
    \/ WebhookHandler
    \/ WebhookUnhandled

SpecWebhook == InitWebhook /\ [][NextWebhook]_vars

----------------------------------------------------------------------------
(* SmartAgent.run, _start_history and _update_history                      *)
(* (app/agents/smart_agent.py).  GitLab, the LLM agent and MongoDB are the *)
(* environment: each call of them returns or raises.                       *)

MaxHistory == 2

S_system == <<"s", "y", "s", "t", "e", "m">>
S_mongo_error == <<"w", "r", "i", "t", "e", " ", "f", "a", "i", "l", "e", "d">>
FetchErrors == {<<"4", "0", "4", " ", "N", "o", "t", " ", "F", "o", "u", "n", "d">>}

\* the messages a caller may pass
Messages == {ModelRequest(<<"@", "b", "o", "t", " ", "w", "h", "y">>), ModelResponse(<<"d", "o", "n", "e">>)}
MessageHistories == {NoneStr} \cup {Some(h) : h \in SeqsUpTo(Messages, MaxHistory)}

\* lines 232-241: the system prompt goes first when a history is given, and
\* message_history or [] is passed on
AgentMessages(mh) ==
    IF mh.some THEN <<ModelRequest(S_system)>> \o mh.val ELSE <<>>

\* lines 299-318: the inserted document
PendingRecord == [exists |-> TRUE, status |-> "pending", error_message |-> NoneStr]

\* lines 366-375 for a status that is not None: $set of status and error_message
UpdateHistory(record, status, error_message) ==
    [record EXCEPT !.status = status, !.error_message = error_message]

InitRun ==
    /\ NotRunIdle
    /\ message_history \in MessageHistories
    /\ run_pc = "start"
    /\ request_type = IF message_history # NoneStr THEN "note_reply" ELSE "mr_review"
    /\ history_id = None
    /\ history_record = NoRecord
    /\ status_log = <<>>
    /\ agent_messages = <<>>
    /\ caught = NoneStr
    /\ update_failed = FALSE
    /\ run_output = NoneStr
    /\ run_raised = NoneStr

\* lines 204-205 raise; lines 244-255 with history_id None
RunFetchFails ==
    /\ run_pc = "start"
    /\ \E e \in FetchErrors :
          /\ caught' = Some(e)
          /\ run_raised' = Some(e)
    /\ run_pc' = "raised"
    /\ UNCHANGED <<message_history, request_type, history_id, history_record, status_log,
                   agent_messages, update_failed, run_output>>
    /\ UNCHANGED notRunVars

\* lines 204-212 where insert_one raises; lines 244-255 with history_id None
RunStartHistoryFails ==
    /\ run_pc = "start"
    /\ caught' = Some(S_mongo_error)
    /\ run_raised' = Some(S_mongo_error)
    /\ run_pc' = "raised"
    /\ UNCHANGED <<message_history, request_type, history_id, history_record, status_log,
                   agent_messages, update_failed, run_output>>
    /\ UNCHANGED notRunVars

\* lines 204-212 and 291-318
RunStartHistory ==
    /\ run_pc = "start"
    /\ history_id' = 1
    /\ history_record' = PendingRecord
    /\ status_log' = Append(status_log, PendingRecord.status)
    /\ run_pc' = "started"
    /\ UNCHANGED <<message_history, request_type, agent_messages, caught, update_failed,
                   run_output, run_raised>>
    /\ UNCHANGED notRunVars

\* lines 214-243: the agent returns a response
RunAgentReturns ==
    /\ run_pc = "started"
    /\ agent_messages' = AgentMessages(message_history)
    /\ \E output \in SmartOutputs : run_output' = Some(output)
    /\ run_pc' = "ran"
    /\ UNCHANGED <<message_history, request_type, history_id, history_record, status_log,
                   caught, update_failed, run_raised>>
    /\ UNCHANGED notRunVars

\* lines 214-255: gather_context or the agent raises, the record is updated,
\* and the exception is raised again
RunAgentRaises ==
    /\ run_pc = "started"
    /\ \E e \in SmartErrors :
          /\ caught' = Some(e)
          /\ history_record' = UpdateHistory(history_record, "failed", Some(e))
          /\ run_raised' = Some(e)
    /\ status_log' = Append(status_log, "failed")
    /\ run_pc' = "raised"
    /\ UNCHANGED <<message_history, request_type, history_id, agent_messages, update_failed,
                   run_output>>
    /\ UNCHANGED notRunVars

\* lines 214-254 where update_one raises inside the except clause: its
\* exception leaves run instead of the one caught
RunAgentRaisesUpdateFails ==
    /\ run_pc = "started"
    /\ \E e \in SmartErrors : caught' = Some(e)
    /\ update_failed' = TRUE
    /\ run_raised' = Some(S_mongo_error)
    /\ run_pc' = "raised"
    /\ UNCHANGED <<message_history, request_type, history_id, history_record, status_log,
                   agent_messages, run_output>>
    /\ UNCHANGED notRunVars

\* lines 258-282 and 289
RunCompleted ==
    /\ run_pc = "ran"
    /\ history_record' = UpdateHistory(history_record, "completed", NoneStr)
    /\ status_log' = Append(status_log, "completed")
    /\ run_pc' = "returned"
    /\ UNCHANGED <<message_history, request_type, history_id, agent_messages, caught,
                   update_failed, run_output, run_raised>>
    /\ UNCHANGED notRunVars

\* lines 259-264 raise (no usage, messages that cannot be dumped); 285-289
RunUsageFails ==
    /\ run_pc = "ran"
    /\ run_pc' = "returned"
    /\ UNCHANGED <<message_history, request_type, history_id, history_record, status_log,
                   agent_messages, caught, update_failed, run_output, run_raised>>
    /\ UNCHANGED notRunVars

\* lines 265-282 where update_one raises; 285-289
RunCompletedUpdateFails ==
    /\ run_pc = "ran"
    /\ update_failed' = TRUE
    /\ run_pc' = "returned"
    /\ UNCHANGED <<message_history, request_type, history_id, history_record, status_log,
                   agent_messages, caught, run_output, run_raised>>
    /\ UNCHANGED notRunVars

NextRun ==
    \/ RunFetchFails
    \/ RunStartHistoryFails
    \/ RunStartHistory
    \/ RunAgentReturns
    \/ RunAgentRaises
    \/ RunAgentRaisesUpdateFails
    \/ RunCompleted
    \/ RunUsageFails
    \/ RunCompletedUpdateFails

SpecRun == InitRun /\ [][NextRun]_vars

----------------------------------------------------------------------------
(* The system prompts of the Review and Describe commands                  *)
(* (app/prompts/review.py, app/prompts/describe.py) and the output models  *)
(* built next to them (ReviewCommand.run, DescribeCommand.run).            *)

ReviewFlags ==
    {"related_issues", "require_estimate_effort_to_review", "require_score", "require_tests",
     "require_security_review", "require_prompt_suggestion"}
DescribeFlags == {"enable_diagram", "enable_files", "enable_file_summary"}

\* a line "name: type = Field(...)" of class cls in a template, inside the
\* {% if %} blocks named by guards; of is the class the type refers to
Decl(cls, name, of, guards) == [class |-> cls, name |-> name, of |-> of, guards |-> guards]

\* prompts/review.py, lines 61-105
ReviewTemplate ==
    << Decl("KeyIssuesComponentLink", "relevant_file", "", {}),
       Decl("KeyIssuesComponentLink", "issue_header", "", {}),
       Decl("KeyIssuesComponentLink", "issue_content", "", {}),
       Decl("KeyIssuesComponentLink", "start_line", "", {}),
       Decl("KeyIssuesComponentLink", "end_line", "", {}),
       Decl("IssueCompliance", "issue_id", "", {"related_issues"}),
       Decl("IssueCompliance", "issue_title", "", {"related_issues"}),
       Decl("IssueCompliance", "issue_description", "", {"related_issues"}),
       Decl("IssueCompliance", "fully_compliant_points", "", {"related_issues"}),
       Decl("IssueCompliance", "not_compliant_points", "", {"related_issues"}),
       Decl("IssueCompliance", "requires_further_human_verification", "", {"related_issues"}),
       Decl("Review", "issue_compliance_check", "IssueCompliance", {"related_issues"}),
       Decl("Review", "estimated_effort_to_review", "", {"require_estimate_effort_to_review"}),
       Decl("Review", "score", "", {"require_score"}),
       Decl("Review", "relevant_tests", "", {"require_tests"}),
       Decl("Review", "key_issues_to_review", "KeyIssuesComponentLink", {}),
       Decl("Review", "security_concerns", "", {"require_security_review"}),
       Decl("Review", "prompt_suggestion_for_agent", "", {"require_prompt_suggestion"}),
       Decl("MRReview", "review", "Review", {}) >>

\* prompts/describe.py, lines 23-53
DescribeTemplate ==
    << Decl("FileDescription", "filename", "", {"enable_files"}),
       Decl("FileDescription", "changes_summary", "", {"enable_files", "enable_file_summary"}),
       Decl("FileDescription", "changes_title", "", {"enable_files"}),
       Decl("FileDescription", "label", "", {"enable_files"}),
       Decl("MRDescription", "type", "", {}),
       Decl("MRDescription", "description", "", {}),
       Decl("MRDescription", "title", "", {}),
       Decl("MRDescription", "changes_diagram", "", {"enable_diagram"}),
       Decl("MRDescription", "mr_files", "FileDescription", {"enable_files"}) >>

\* Template.render(**input): a line is kept when every {% if %} around it is true
Render(template, inp) ==
    SelectSeq(template, LAMBDA d : \A g \in d.guards : inp[g])

\* the pydantic classes the output models refer to: review.py lines 39-53,
\* describe.py lines 35-39
ClassFields ==
    [cls \in {"KeyIssuesComponentLink", "IssueCompliance", "FileDescription"} |->
        CASE cls = "KeyIssuesComponentLink" ->
                 <<"relevant_file", "issue_header", "issue_content", "start_line", "end_line">>
          [] cls = "IssueCompliance" ->
                 <<"issue_id", "issue_title", "issue_description", "fully_compliant_points",
                   "not_compliant_points", "requires_further_human_verification">>
          [] cls = "FileDescription" ->
                 <<"filename", "changes_summary", "changes_title", "label">>]

\* the class of a field of ReviewOutput, review.py lines 104-123
ReviewFieldClass(name) ==
    CASE name = "issue_compliance_check" -> "IssueCompliance"
      [] name = "key_issues_to_review" -> "KeyIssuesComponentLink"
      [] OTHER -> ""

\* review.py lines 104-129
ReviewOutputModel(inp) ==
    [k \in 1..Len(ModelFields(inp)) |->
        [name |-> ModelFields(inp)[k].name, of |-> ReviewFieldClass(ModelFields(inp)[k].name)]]

\* describe.py lines 72-82: None for a field that is switched off
DescribeFieldsDict(inp) ==
    << [name |-> "type", of |-> "", typed |-> TRUE],
       [name |-> "description", of |-> "", typed |-> TRUE],
       [name |-> "title", of |-> "", typed |-> TRUE],
       [name |-> "changes_diagram", of |-> "", typed |-> inp["enable_diagram"]],
       [name |-> "mr_files", of |-> "FileDescription", typed |-> inp["enable_files"]] >>

\* describe.py lines 83-85
DescribeOutputModel(inp) ==
    [k \in 1..Len(SelectSeq(DescribeFieldsDict(inp), IsTyped)) |->
        [name |-> SelectSeq(DescribeFieldsDict(inp), IsTyped)[k].name,
         of |-> SelectSeq(DescribeFieldsDict(inp), IsTyped)[k].of]]

\* the input ModelFields reads, from the flags of a ReviewInput
AsReviewInput(inp) == [f \in ReviewFlags |-> inp[f]]

PromptInputs(cmd) ==
    {inp \in [PromptFlags -> BOOLEAN] :
        \A f \in PromptFlags \ (IF cmd = "review" THEN ReviewFlags ELSE DescribeFlags) : ~inp[f]}

InitPrompt ==
    /\ NotPromptIdle
    /\ prompt_command \in {"review", "describe"}
    /\ prompt_input \in PromptInputs(prompt_command)
    /\ tpc = "start"
    /\ rendered = <<>>
    /\ output_model = <<>>

\* review.py line 100 (CommandInterface._render_system_prompt)
ReviewRenderPrompt ==
    /\ prompt_command = "review" /\ tpc = "start"
    /\ rendered' = Render(ReviewTemplate, prompt_input)
    /\ tpc' = "rendered"
    /\ UNCHANGED <<prompt_command, prompt_input, output_model>>
    /\ UNCHANGED notPromptVars

\* review.py lines 103-129
ReviewBuildOutput ==
    /\ prompt_command = "review" /\ tpc = "rendered"
    /\ output_model' = ReviewOutputModel(AsReviewInput(prompt_input))
    /\ tpc' = "built"
    /\ UNCHANGED <<prompt_command, prompt_input, rendered>>
    /\ UNCHANGED notPromptVars

\* describe.py line 68
DescribeRenderPrompt ==
    /\ prompt_command = "describe" /\ tpc = "start"
    /\ rendered' = Render(DescribeTemplate, prompt_input)
    /\ tpc' = "rendered"
    /\ UNCHANGED <<prompt_command, prompt_input, output_model>>
    /\ UNCHANGED notPromptVars

\* describe.py lines 71-85
DescribeBuildOutput ==
    /\ prompt_command = "describe" /\ tpc = "rendered"
    /\ output_model' = DescribeOutputModel(prompt_input)
    /\ tpc' = "built"
    /\ UNCHANGED <<prompt_command, prompt_input, rendered>>
    /\ UNCHANGED notPromptVars

NextPrompt ==
    \/ ReviewRenderPrompt
    \/ ReviewBuildOutput
    \/ DescribeRenderPrompt
    \/ DescribeBuildOutput

SpecPrompt == InitPrompt /\ [][NextPrompt]_vars

----------------------------------------------------------------------------
(* refresh_token (app/api/routes/auth.py), POST /auth/refresh.  Every      *)
(* request runs in an AsyncSession of its own (api/deps.py:18-27); it is   *)
(* suspended at each await, where another request may run.                 *)

MaxTokens == 4
Requests == {1, 2}
TokenValues == 1..MaxTokens

\* range(3), line 44
RefreshAttempts == 3

\* sha256(token).hexdigest(), auth/jwt.py:23-24: injective on the tokens
hash_token(token) == <<"sha256", token>>

NoRow == [id |-> 0, refresh_token_hash |-> <<>>, expired |-> FALSE]
Row(id, token, expired) ==
    [id |-> id, refresh_token_hash |-> hash_token(token), expired |-> expired]
NoResponse == [status |-> 0, refresh_token |-> 0]

\* lines 29-38: the rows with this hash whose expires_at is in the future
ValidRows(token) ==
    {row \in refresh_sessions : row.refresh_token_hash = hash_token(token) /\ ~row.expired}

\* the unique index on refresh_token_hash (db/models.py:107-109) rejects the
\* INSERT; the unit of work flushes the INSERT before the DELETE
HashTaken(token) == \E row \in refresh_sessions : row.refresh_token_hash = hash_token(token)

\* the table when the server starts serving: token 1 is valid, token 2 expired
InitRefresh ==
    /\ NotRefreshIdle
    /\ refresh_sessions = {Row(1, 1, FALSE), Row(2, 2, TRUE)}
    /\ next_id = 3
    /\ rf_in \in [Requests -> 1..3]
    /\ qpc = [r \in Requests |-> "start"]
    /\ user_session = [r \in Requests |-> NoRow]
    /\ tries = [r \in Requests |-> 0]
    /\ rf_out = [r \in Requests |-> NoResponse]

\* lines 28-40: no row, 401
RefreshRejected(r) ==
    /\ qpc[r] = "start"
    /\ ValidRows(rf_in[r]) = {}
    /\ rf_out' = [rf_out EXCEPT ![r] = [status |-> 401, refresh_token |-> 0]]
    /\ qpc' = [qpc EXCEPT ![r] = "done"]
    /\ UNCHANGED <<refresh_sessions, next_id, rf_in, user_session, tries>>
    /\ UNCHANGED notRefreshVars

\* lines 28-42: the row is loaded into this request's session
RefreshSelect(r) ==
    /\ qpc[r] = "start"
    /\ \E row \in ValidRows(rf_in[r]) : user_session' = [user_session EXCEPT ![r] = row]
    /\ qpc' = [qpc EXCEPT ![r] = "loop"]
    /\ UNCHANGED <<refresh_sessions, next_id, rf_in, tries, rf_out>>
    /\ UNCHANGED notRefreshVars

\* lines 44-72: the commit deletes the loaded row, inserts the new one, and
\* the new pair is returned
RefreshRotate(r) ==
    /\ qpc[r] = "loop" /\ tries[r] < RefreshAttempts
    /\ user_session[r] \in refresh_sessions
    /\ \E token \in TokenValues :
          /\ ~HashTaken(token)
          /\ refresh_sessions' =
                (refresh_sessions \ {user_session[r]}) \cup {Row(next_id, token, FALSE)}
          /\ rf_out' = [rf_out EXCEPT ![r] = [status |-> 200, refresh_token |-> token]]
    /\ next_id' = next_id + 1
    /\ tries' = [tries EXCEPT ![r] = @ + 1]
    /\ qpc' = [qpc EXCEPT ![r] = "done"]
    /\ UNCHANGED <<rf_in, user_session>>
    /\ UNCHANGED notRefreshVars

\* lines 44-72 when another request has deleted the loaded row since line 38:
\* the DELETE by primary key matches no row, which the ORM only warns about,
\* and the commit goes through
RefreshRotateStale(r) ==
    /\ qpc[r] = "loop" /\ tries[r] < RefreshAttempts
    /\ user_session[r] \notin refresh_sessions
    /\ \E token \in TokenValues :
          /\ ~HashTaken(token)
          /\ refresh_sessions' = refresh_sessions \cup {Row(next_id, token, FALSE)}
          /\ rf_out' = [rf_out EXCEPT ![r] = [status |-> 200, refresh_token |-> token]]
    /\ next_id' = next_id + 1
    /\ tries' = [tries EXCEPT ![r] = @ + 1]
    /\ qpc' = [qpc EXCEPT ![r] = "done"]
    /\ UNCHANGED <<rf_in, user_session>>
    /\ UNCHANGED notRefreshVars

\* lines 44-66: the new token's hash is taken, IntegrityError, rollback, continue
RefreshCollision(r) ==
    /\ qpc[r] = "loop" /\ tries[r] < RefreshAttempts
    /\ \E token \in TokenValues : HashTaken(token)
    /\ tries' = [tries EXCEPT ![r] = @ + 1]
    /\ UNCHANGED <<refresh_sessions, next_id, rf_in, qpc, user_session, rf_out>>
    /\ UNCHANGED notRefreshVars

\* line 44 after the third IntegrityError: the function ends without a return
\* and the framework, which cannot validate None as RefreshTokenOut
\* (line 22), answers 500
RefreshExhausted(r) ==
    /\ qpc[r] = "loop" /\ tries[r] = RefreshAttempts
    /\ rf_out' = [rf_out EXCEPT ![r] = [status |-> 500, refresh_token |-> 0]]
    /\ qpc' = [qpc EXCEPT ![r] = "done"]
    /\ UNCHANGED <<refresh_sessions, next_id, rf_in, user_session, tries>>
    /\ UNCHANGED notRefreshVars

NextRefresh ==
    \/ \E r \in Requests : RefreshRejected(r)
    \/ \E r \in Requests : RefreshSelect(r)
    \/ \E r \in Requests : RefreshRotate(r)
    \/ \E r \in Requests : RefreshRotateStale(r)
    \/ \E r \in Requests : RefreshCollision(r)
    \/ \E r \in Requests : RefreshExhausted(r)

SpecRefresh == InitRefresh /\ [][NextRefresh]_vars

----------------------------------------------------------------------------
(* CacheService (app/services/cache_service.py): get, set, delete and      *)
(* clear_expired over the cache table, called one after another on the     *)
(* session of a request.                                                   *)

MaxTime == 2
MaxTtl == 2
CacheKeys == {"state", "verifier"}
CacheValues == {<<"a">>, <<"b">>}
\* ttl_seconds: Optional[int] = None, line 29
TtlValues == {None} \cup (0..MaxTtl)

NoEntry == [some |-> FALSE, value |-> <<>>, ttl_seconds |-> None, at |-> 0]
Called(op, key, result, exception) ==
    [op |-> op, key |-> key, at |-> cache_now, result |-> result, raised |-> exception]

\* `Cache.expires_at is None`, line 21: Python's identity test of the column
\* attribute against None, evaluated when the statement is built
expires_at_is_None == FALSE

\* `Cache.expires_at > NOW()`, line 21, evaluated by the database for a row:
\* a comparison with NULL is not true
expires_at_gt_now(row) == row.expires_at # None /\ row.expires_at > cache_now

\* lines 19-22: the rows the statement selects
Selected(key) ==
    {row \in cache_rows :
        row.key = key /\ (expires_at_is_None \/ expires_at_gt_now(row))}

\* line 30: `... if ttl_seconds else None`
ExpiresAt(ttl_seconds) ==
    IF ttl_seconds # None /\ ttl_seconds # 0 THEN cache_now + ttl_seconds ELSE None

\* line 33 and line 40: delete(Cache).where(Cache.key == key)
WithoutKey(key) == {row \in cache_rows : row.key # key}

InitCache ==
    /\ NotCacheIdle
    /\ cache_rows = {}
    /\ cache_now = 0
    /\ cache_op = NoCall
    /\ last_set = [key \in CacheKeys |-> NoEntry]

\* lines 17-27; scalar_one_or_none raises for more than one row
CacheGet(key) ==
    /\ cache_op' =
          IF Cardinality(Selected(key)) > 1
          THEN Called("get", key, NoneStr, "MultipleResultsFound")
          ELSE IF Selected(key) = {}
          THEN Called("get", key, NoneStr, "")
          ELSE Called("get", key, Some((CHOOSE row \in Selected(key) : TRUE).value), "")
    /\ UNCHANGED <<cache_rows, cache_now, last_set>>
    /\ UNCHANGED notCacheVars

\* lines 29-37
CacheSet(key, value, ttl_seconds) ==
    /\ cache_rows' = WithoutKey(key) \cup
          {[key |-> key, value |-> value, expires_at |-> ExpiresAt(ttl_seconds)]}
    /\ cache_op' = Called("set", key, NoneStr, "")
    /\ last_set' = [last_set EXCEPT ![key] =
          [some |-> TRUE, value |-> value, ttl_seconds |-> ttl_seconds, at |-> cache_now]]
    /\ UNCHANGED cache_now
    /\ UNCHANGED notCacheVars

\* lines 39-41
CacheDelete(key) ==
    /\ cache_rows' = WithoutKey(key)
    /\ cache_op' = Called("delete", key, NoneStr, "")
    /\ last_set' = [last_set EXCEPT ![key] = NoEntry]
    /\ UNCHANGED cache_now
    /\ UNCHANGED notCacheVars

\* lines 43-49: `(Cache.expires_at is not None)` is the bool True, and
\* `True & <comparison>` is a TypeError raised while the statement is built
CacheClearExpired ==
    /\ cache_op' = Called("clear_expired", "", NoneStr, "TypeError")
    /\ UNCHANGED <<cache_rows, cache_now, last_set>>
    /\ UNCHANGED notCacheVars

\* lines 9-10: the clock moves on between two calls
CacheTick ==
    /\ cache_now < MaxTime
    /\ cache_now' = cache_now + 1
    /\ UNCHANGED <<cache_rows, cache_op, last_set>>
    /\ UNCHANGED notCacheVars

NextCache ==
    \/ \E key \in CacheKeys : CacheGet(key)
    \/ \E key \in CacheKeys, value \in CacheValues, ttl_seconds \in TtlValues :
          CacheSet(key, value, ttl_seconds)
    \/ \E key \in CacheKeys : CacheDelete(key)
    \/ CacheClearExpired
    \/ CacheTick

SpecCache == InitCache /\ [][NextCache]_vars

----------------------------------------------------------------------------
(* Claims about CommandAgent._parse_bot_command and CommandAgent.run,      *)
(* checked under SpecParse.                                                *)

\* the parser has returned (command, flags, args) to run
ParserReturned == command_name.set

\* tokens[i] stands after the command name and directly after a flag token
FollowsFlag(i) == i > 2 /\ IsFlag(tokens[i - 1])

HasFlag(key, value) == key \in DOMAIN flags /\ flags[key] = value

\* no later flag token carries the key of the flag token at i (a later one
\* replaces the value in the dict)
LastOfItsKey(i) ==
    \A j \in (i + 1)..Len(tokens) : ~(IsFlag(tokens[j]) /\ FlagKey(tokens[j]) = FlagKey(tokens[i]))

\* C1: no token after the command name is lost: each one is a key of flags,
\* the string value of the flag directly before it (unless the same flag is
\* given again later), or an element of args;
\* and "describe --enable_diagram --enable_files" yields both flags True and
\* no args.
C1_NoTokenLost ==
    ParserReturned =>
        /\ \A i \in 2..Len(tokens) :
              IF IsFlag(tokens[i])
              THEN FlagKey(tokens[i]) \in DOMAIN flags
              ELSE \/ tokens[i] \in Range(args)
                   \/ /\ FollowsFlag(i)
                      /\ FlagKey(tokens[i - 1]) \in DOMAIN flags
                      /\ LastOfItsKey(i - 1) => HasFlag(FlagKey(tokens[i - 1]), FlagStr(tokens[i]))
        /\ tokens = <<S_describe, DashDash \o S_enable_diagram, DashDash \o S_enable_files>>
              => /\ DOMAIN flags = {S_enable_diagram, S_enable_files}
                 /\ \A k \in DOMAIN flags : flags[k] = FlagTrue
                 /\ args = <<>>

RECURSIVE PositionalFrom(_)
\* the tokens from position i on that are neither flags nor flag values
PositionalFrom(i) ==
    IF i > Len(tokens) THEN <<>>
    ELSE IF IsFlag(tokens[i]) \/ FollowsFlag(i) THEN PositionalFrom(i + 1)
    ELSE <<tokens[i]>> \o PositionalFrom(i + 1)

\* C2: the first token is the command name; a flag followed by a token that
\* is no flag has that token as its string value; a flag that is the last
\* token is True; args is the other non-flag tokens in their original order.
C2_FlagValuesAndArgs ==
    ParserReturned =>
        /\ command_name.val = tokens[1]
        /\ args = PositionalFrom(2)
        /\ \A i \in 2..Len(tokens) :
              IsFlag(tokens[i]) /\ LastOfItsKey(i) =>
                  IF i = Len(tokens)
                  THEN HasFlag(FlagKey(tokens[i]), FlagTrue)
                  ELSE ~IsFlag(tokens[i + 1]) =>
                          HasFlag(FlagKey(tokens[i]), FlagStr(tokens[i + 1]))

\* run has ended, by a return or by an exception
RunEnded == ppc \in {"done", "raised"}

\* the input is one the parser must reject
BadInput ==
    LET r == ShlexSplit(text)
    IN  \/ ~r.ok
        \/ r.tokens = <<>>
        \/ \E i \in 2..Len(r.tokens) : r.tokens[i] = DashDash

\* C3: an input whose tokenization fails, whose token list is empty, or that
\* has a bare "--" anywhere after the command name, ends in CommandParseError
\* and the parser returns nothing.
C3_RaisesOnBadInput ==
    (ppc # "call" /\ ppc # "loop") /\ BadInput =>
        /\ ~ParserReturned
        /\ ppc = "raised"
        /\ error.type = "CommandParseError"

\* the five names of the dispatch table, written out
TheFiveCommands ==
    { <<"h", "e", "l", "p">>, <<"r", "e", "v", "i", "e", "w">>,
      <<"d", "e", "s", "c", "r", "i", "b", "e">>, <<"s", "u", "g", "g", "e", "s", "t">>,
      <<"a", "d", "d", "_", "d", "o", "c", "s">> }

\* C4: a parsed command name that is not exactly one of the five ends run in
\* CommandParseError("Unknown command: <name>"), with no handler
\* instantiated and no GitLab or LLM call made.
C4_UnknownCommandRaises ==
    RunEnded /\ ParserReturned /\ command_name.val \notin TheFiveCommands =>
        /\ ppc = "raised"
        /\ error = CommandParseError("Unknown command: ", command_name.val)
        /\ handler = "none"
        /\ gitlab_calls = 0
        /\ llm_calls = 0

\* "Help --enable_diagram extra" was parsed and refused: the match is
\* case-sensitive
C4_Witness ==
    /\ ppc = "raised"
    /\ ParserReturned
    /\ command_name.val = <<"H", "e", "l", "p">>
    /\ error.msg = "Unknown command: "
    /\ args = <<S_extra>>

----------------------------------------------------------------------------
(* Claims about _format_diff_with_line_numbers, checked under SpecFormat.  *)

\* the lines the loop has handled so far
Handled == 1..Len(formatted_lines)

\* the position of the nearest hunk header line before line i, or 0
LastHunk(i) ==
    LET hs == {h \in 1..(i - 1) : IsHunkLine(lines[h])}
    IN  IF hs = {} THEN 0 ELSE CHOOSE h \in hs : \A k \in hs : k <= h

\* line i stands in a hunk whose header was parsed / could not be parsed
InParsedHunk(i) == LastHunk(i) > 0 /\ HunkSearch(lines[LastHunk(i)]).ok
InUnparsedHunk(i) == LastHunk(i) > 0 /\ ~HunkSearch(lines[LastHunk(i)]).ok

\* how many context or added (context or removed) lines stand between the
\* header of line i's hunk and line i
NewSideBefore(i) ==
    Cardinality({k \in (LastHunk(i) + 1)..(i - 1) : IsContextLine(lines[k]) \/ IsAddedLine(lines[k])})
OldSideBefore(i) ==
    Cardinality({k \in (LastHunk(i) + 1)..(i - 1) : IsContextLine(lines[k]) \/ IsRemovedLine(lines[k])})

\* the numbers a and c of the header '@@ -a[,b] +c[,d] @@' of line i's hunk
HunkOldStart(i) == StrToInt(HunkSearch(lines[LastHunk(i)]).g1)
HunkNewStart(i) == StrToInt(HunkSearch(lines[LastHunk(i)]).g2)

\* line, with the number n right-justified to width 6 and a space before it
Numbered(n, line) == Rjust(IntToStr(n), 6) \o <<" ">> \o line

\* C5: in a hunk whose header '@@ -a[,b] +c[,d] @@' was parsed, an added line
\* carries c plus the number of context and added lines since the header, a
\* removed line a plus the number of context and removed lines since the
\* header, right-justified to width 6; each parsed header seeds both anew.
C5_LineNumbersFollowHunkHeader ==
    \A i \in Handled :
        InParsedHunk(i) =>
            /\ IsAddedLine(lines[i]) =>
                  formatted_lines[i] = Numbered(HunkNewStart(i) + NewSideBefore(i), lines[i])
            /\ IsRemovedLine(lines[i]) =>
                  formatted_lines[i] = Numbered(HunkOldStart(i) + OldSideBefore(i), lines[i])

\* "@@ -10,3 +12,4 @@", " c", "+a" was numbered: +a is line 13 of the new file
C5_Witness ==
    /\ fpc = "returned"
    /\ lines = <<L_hunk, L_context, L_added>>
    /\ formatted_lines[3] = <<" ", " ", " ", " ", "1", "3", " ", "+", "a">>

\* the added and the removed lines
IsNumberedLine(line) == IsAddedLine(line) \/ IsRemovedLine(line)

RECURSIVE LeadLen(_, _)
\* how many characters of s, from position p on, are digits or spaces
LeadLen(s, p) ==
    IF p > Len(s) \/ s[p] \notin Digits \cup {" "} THEN 0 ELSE 1 + LeadLen(s, p + 1)

\* every line but the added and removed ones is emitted as it is, in its
\* place, and at the return there is one output line per input line
C6_Unprefixed ==
    /\ \A i \in Handled : ~IsNumberedLine(lines[i]) => formatted_lines[i] = lines[i]
    /\ Len(formatted_lines) <= Len(lines)
    /\ fpc = "returned" =>
          /\ Len(formatted_lines) = Len(lines)
          /\ formatted = Join(NL, formatted_lines)

\* C6 as it was stated: the prefix of an added or removed line is 7 characters
C6_SevenCharacterPrefix ==
    /\ C6_Unprefixed
    /\ \A i \in Handled :
          IsNumberedLine(lines[i]) => DropPrefix(formatted_lines[i], 7) = lines[i]

\* the prefix is the digits and spaces before the line's own "+" or "-": 7
\* characters, or more when the number has more than 6 digits and fills it
C6_PrefixRemoved ==
    \A i \in Handled :
        IsNumberedLine(lines[i]) =>
            /\ DropPrefix(formatted_lines[i], LeadLen(formatted_lines[i], 1)) = lines[i]
            /\ LeadLen(formatted_lines[i], 1) >= 7
            /\ LeadLen(formatted_lines[i], 1) > 7 =>
                  \A k \in 1..(LeadLen(formatted_lines[i], 1) - 1) : formatted_lines[i][k] \in Digits

\* a counter that is set advances by exactly 1
Advanced(before, after) == IF before = None THEN after = None ELSE after = before + 1

\* the step that handles a context line advances both counters by exactly 1,
\* the step that handles a line of no class advances neither
C6_CounterSteps ==
    (HasNextLine /\ line_idx' = line_idx + 1) =>
        /\ IsContextLine(NextLine) =>
              /\ Advanced(old_line_no, old_line_no')
              /\ Advanced(new_line_no, new_line_no')
        /\ IsOtherLine(NextLine) =>
              /\ old_line_no' = old_line_no
              /\ new_line_no' = new_line_no

\* C6 (amended): line content and line order are never changed; a context
\* line is emitted unprefixed and advances both counters by exactly 1; a line
\* of no class is emitted unchanged and advances neither; the output has as
\* many lines as the input; removing the prefix of the added and removed
\* lines, which is 7 characters only while the line number has at most 6
\* digits, gives back the input lines.
C6_ContentAndOrderKept ==
    /\ [](C6_Unprefixed /\ C6_PrefixRemoved)
    /\ [][C6_CounterSteps]_vars

\* "@@ -999998 +1000000 @@", " c", "+a" was formatted: the context line is
\* unchanged and the added line carries the 7-digit number 1000001
C6_Witness ==
    /\ fpc = "returned"
    /\ lines = <<L_hunk_big, L_context, L_added>>
    /\ formatted_lines[2] = L_context
    /\ formatted_lines[3] = <<"1", "0", "0", "0", "0", "0", "1", " ", "+", "a">>
    /\ old_line_no = 999999

\* C7: in a hunk whose header could not be parsed, the added and removed
\* lines are prefixed with six spaces and carry no number, whatever hunks
\* came before.
C7_UnparsedHunkUnnumbered ==
    \A i \in Handled :
        InUnparsedHunk(i) /\ IsNumberedLine(lines[i]) =>
            formatted_lines[i] = Spaces(6) \o <<" ">> \o lines[i]

----------------------------------------------------------------------------
(* Claims about _gether_gitlab_diff, checked under SpecGather.             *)

\* the function went through its loop and returned the context
ContextReturned == gpc = "returned" /\ logged = ""

\* the diff text of entry i, and its token estimate len(diff_text)//4
TextOf(i) == IF "diff" \in DOMAIN mr_diffs[i] THEN mr_diffs[i].diff ELSE <<>>
TokenEstimate(i) == Len(TextOf(i)) \div 4
OverBudget(i) == TokenEstimate(i) > max_tokens_per_diff

\* the path of entry i: new_path, else old_path
PathOf(i) ==
    IF "new_path" \in DOMAIN mr_diffs[i] /\ mr_diffs[i].new_path # <<>>
    THEN mr_diffs[i].new_path
    ELSE mr_diffs[i].old_path

\* entry i carries the marker
Marked(i, key) == key \in DOMAIN mr_diffs[i] /\ mr_diffs[i][key] = TRUE

RECURSIVE FilesWhere(_, _)
\* the numbers of the first n entries that satisfy P, in their order
FilesWhere(P(_), n) ==
    IF n = 0 THEN <<>>
    ELSE IF P(n) THEN Append(FilesWhere(P, n - 1), n)
    ELSE FilesWhere(P, n - 1)

WithinBudget(i) == ~OverBudget(i)
KeptFiles == FilesWhere(WithinBudget, Len(mr_diffs))
SkippedFiles == FilesWhere(OverBudget, Len(mr_diffs))
SkippedPaths == [k \in 1..Len(SkippedFiles) |-> PathOf(SkippedFiles[k])]

\* the pieces of the context: context_lines holds one piece per line of a
\* block's head and one for a whole annotated diff, and the returned string
\* is these joined by newlines
IsFileLine(line) == StartsWith(line, S_file)
IsNoteLine(line) == StartsWith(line, <<"N", "o", "t", "e", ":">>)

\* C8: a file whose token estimate is above settings.max_tokens_per_diff has
\* no '## File:' block and its path is listed in the trailing note; a file at
\* or below the budget has exactly one block, the blocks stand in the order
\* of the files, and its path is not in the note; the note is there only if
\* a file was skipped.
C8_TokenBudgetSkip ==
    ContextReturned =>
        /\ context = Join(NL, context_lines)
        /\ SelectSeq(context_lines, IsFileLine)
              = [k \in 1..Len(KeptFiles) |-> S_file \o PathOf(KeptFiles[k]) \o <<"'">>]
        /\ SelectSeq(context_lines, IsNoteLine)
              = IF SkippedFiles = <<>> THEN <<>>
                ELSE <<S_note \o Join(S_comma, SkippedPaths)>>
        /\ SkippedFiles # <<>> => IsNoteLine(context_lines[Len(context_lines)])
        /\ \A i \in 1..Len(mr_diffs) : OverBudget(i) <=> PathOf(i) \in Range(SkippedPaths)

\* of two files the first was over the budget and the second exactly at it:
\* the returned string has the one '## File:' line of the second and ends
\* with the note that names the first
C8_Witness ==
    /\ ContextReturned
    /\ Len(mr_diffs) = 2
    /\ OverBudget(1)
    /\ TokenEstimate(2) = max_tokens_per_diff
    /\ SelectSeq(Splitlines(context), IsFileLine) = <<S_file \o <<"b", "2", "'">>>>
    /\ Splitlines(context)[Len(Splitlines(context))] = S_note \o <<"b", "1">>

\* the loop has just written the block of entry diff_no
BlockWritten == gpc = "loop" /\ diff_no >= 1 /\ ~OverBudget(diff_no)

\* that block: the lines from the last '## File:' line on
LastBlock ==
    LET hs == {h \in 1..Len(context_lines) : IsFileLine(context_lines[h])}
    IN  SubSeq(context_lines, CHOOSE h \in hs : \A k \in hs : k <= h, Len(context_lines))

\* C9: the can_review_diff value written for an entry is true only if the
\* entry is not marked too_large, not marked collapsed, and has a diff text
\* that is non-empty after stripping; when it is true the annotated diff
\* follows a 'Diff:' line, otherwise the line 'Diff unavailable' is written.
C9_CanReviewOnlyIfUnmarked ==
    BlockWritten =>
        /\ LastBlock[5] \in {S_can_review \o S_true, S_can_review \o S_false}
        /\ LastBlock[5] = S_can_review \o S_true =>
              /\ ~Marked(diff_no, "too_large")
              /\ ~Marked(diff_no, "collapsed")
              /\ Strip(TextOf(diff_no)) # <<>>
        /\ IF LastBlock[5] = S_can_review \o S_true
           THEN /\ LastBlock[7] = S_diff
                /\ LastBlock[8] = FormatDiffWithLineNumbers(TextOf(diff_no))
           ELSE LastBlock[7] = S_unavailable

\* C10: the status written for an entry is the first that applies of added
\* (new_file), deleted (deleted_file), renamed (renamed_file), generated
\* (generated_file), and modified when no marker is set.
C10_StatusPrecedence ==
    BlockWritten =>
        LastBlock[4] = S_status \o
            ( CASE Marked(diff_no, "new_file") -> S_added
                [] ~Marked(diff_no, "new_file") /\ Marked(diff_no, "deleted_file") -> S_deleted
                [] ~Marked(diff_no, "new_file") /\ ~Marked(diff_no, "deleted_file")
                     /\ Marked(diff_no, "renamed_file") -> S_renamed
                [] ~Marked(diff_no, "new_file") /\ ~Marked(diff_no, "deleted_file")
                     /\ ~Marked(diff_no, "renamed_file") /\ Marked(diff_no, "generated_file")
                     -> S_generated
                [] OTHER -> S_modified )

\* an entry marked deleted, renamed and generated was written as deleted
C10_Witness ==
    /\ BlockWritten
    /\ ~Marked(diff_no, "new_file")
    /\ Marked(diff_no, "deleted_file")
    /\ Marked(diff_no, "renamed_file")
    /\ Marked(diff_no, "generated_file")
    /\ LastBlock[4] = S_status \o S_deleted

----------------------------------------------------------------------------
(* Claims about gether_gitlab_data and _extract_issue_iids, checked under  *)
(* SpecData.                                                               *)

MrFetchFailed == "error: Failed to fetch MR" \in Range(data_logged)
DiffListFailed ==
    \/ "error: Failed to fetch diff" \in Range(data_logged)
    \/ "warning: No diff versions found" \in Range(data_logged)

\* C11: gether_gitlab_data never raises to its caller: when fetching the
\* merge request fails the failure is logged and the defaults are returned,
\* and when fetching the diff version list fails the result's diff is the
\* empty string.
C11_NeverRaises ==
    /\ dpc # "raised"
    /\ data_error = NoError
    /\ dpc = "returned" /\ MrFetchFailed => data = DefaultData
    /\ dpc = "returned" /\ DiffListFailed => data.diff = <<>>

\* the text that is scanned: the title, then the description
ScannedText == mr_title \o NL \o (IF mr_description.some THEN mr_description.val ELSE <<>>)

RECURSIVE DigitRun(_, _)
\* the digits of t from position p on
DigitRun(t, p) ==
    IF p > Len(t) \/ t[p] \notin Digits THEN <<>> ELSE <<t[p]>> \o DigitRun(t, p + 1)

\* the positions of the '#' that start a reference: digits follow, and no
\* word character stands before
RefStarts ==
    {p \in 1..(Len(ScannedText) - 1) :
        /\ ScannedText[p] = "#"
        /\ ScannedText[p + 1] \in Digits
        /\ p = 1 \/ ScannedText[p - 1] \notin WordChars}

RefNumber(p) == StrToInt(DigitRun(ScannedText, p + 1))

\* the position of the first reference to issue n
FirstRef(n) ==
    CHOOSE p \in RefStarts : RefNumber(p) = n /\ \A q \in RefStarts : RefNumber(q) = n => p <= q

IdsExtracted == dpc = "issues"

\* C12: _extract_issue_iids returns every referenced issue number exactly
\* once, in the order of the first occurrences, the title before the
\* description; '#<digits>' after a word character is no reference, one at
\* the start or after a non-word character is; the example gives [12, 7].
C12_IssueIdsUniqueInOrder ==
    IdsExtracted =>
        /\ Range(issue_ids) = {RefNumber(p) : p \in RefStarts}
        /\ \A i, j \in 1..Len(issue_ids) :
              i < j => issue_ids[i] # issue_ids[j] /\ FirstRef(issue_ids[i]) < FirstRef(issue_ids[j])
        /\ mr_title = R_abc12 /\ ~mr_description.some => issue_ids = <<>>
        /\ mr_title = R_paren12 /\ ~mr_description.some => issue_ids = <<12>>
        /\ mr_title = T_example /\ ~mr_description.some => issue_ids = <<12, 7>>

\* the example was scanned
C12_Witness ==
    /\ IdsExtracted
    /\ mr_title = T_example
    /\ mr_description = NoneStr
    /\ issue_ids = <<12, 7>>

RECURSIVE FoundRefs(_)
\* '#<N>' for those of the first n extracted ids whose fetch succeeds
FoundRefs(n) ==
    IF n = 0 THEN <<>>
    ELSE IF issues[issue_ids[n]] = "found"
         THEN Append(FoundRefs(n - 1), <<"#">> \o IntToStr(issue_ids[n]))
    ELSE FoundRefs(n - 1)

\* the ids of the entries of a related_issues list
RefsOf(list) == [k \in 1..Len(list) |-> list[k].id]

\* C13: related_issues is exactly the subsequence of the extracted ids
\* whose fetch succeeded, in the extracted order, each with id '#<N>'; a
\* failed fetch leaves no placeholder, does not stop the later fetches, and
\* does not make the operation raise.
C13_RelatedIssuesAreTheFetched ==
    /\ dpc = "issues" => RefsOf(related_issues) = FoundRefs(issue_no)
    /\ dpc = "returned" /\ ~MrFetchFailed =>
          /\ issue_no = Len(issue_ids)
          /\ RefsOf(data.related_issues) = FoundRefs(Len(issue_ids))
    /\ dpc = "raised" => issue_no = 0 /\ issue_ids = <<>>

\* of the two references the fetch of the first failed and the second is
\* the only related issue
C13_Witness ==
    /\ dpc = "returned"
    /\ issue_ids = <<12, 7>>
    /\ issues[12] = "GitlabError"
    /\ issues[7] = "found"
    /\ RefsOf(data.related_issues) = <<R_7>>

----------------------------------------------------------------------------
(* Claims about ReviewCommand.run, checked under SpecReview.               *)

\* each optional field of the output model with its one controlling flag
OptionalFields ==
    {<<"estimated_effort_to_review", "require_estimate_effort_to_review">>,
     <<"score", "require_score">>,
     <<"relevant_tests", "require_tests">>,
     <<"security_concerns", "require_security_review">>,
     <<"prompt_suggestion_for_agent", "require_prompt_suggestion">>}

InSchema(name) == \E i \in 1..Len(model_fields) : model_fields[i] = name
InOutput(name) == \E i \in 1..Len(output_data) : output_data[i].key = name

\* C14: once the output model is built, each optional field is in the schema
\* if and only if its controlling flag is true, and once the LLM's answer is
\* accepted the same holds of the keys of the produced output: a field whose
\* flag is false is absent, not present with a null value.
C14_OptionalFieldIffFlag ==
    \A p \in OptionalFields :
        /\ rpc \in {"agent", "answered", "returned"} => (InSchema(p[1]) <=> input_data[p[2]])
        /\ rpc \in {"answered", "returned"} => (InOutput(p[1]) <=> input_data[p[2]])

\* C14 witness: require_security_review is false, the LLM supplied
\* security_concerns all the same, and the accepted output has no such key
\* while it has the score key whose flag is true.
C14_Witness ==
    /\ rpc = "answered"
    /\ ~input_data.require_security_review
    /\ "security_concerns" \in DOMAIN llm_output
    /\ ~InOutput("security_concerns")
    /\ input_data.require_score
    /\ InOutput("score")

\* C15: key_issues_to_review is in the output model for every flag
\* combination, and an answer of the LLM that has no key_issues_to_review is
\* accepted with an empty list in that field.
C15_KeyIssuesDefaultsToEmpty ==
    /\ rpc \in {"agent", "answered", "returned"} => InSchema("key_issues_to_review")
    /\ (attempts > 0 /\ rpc # "raised" /\ "key_issues_to_review" \notin DOMAIN llm_output)
           => /\ rpc \in {"answered", "returned"}
              /\ \E i \in 1..Len(output_data) :
                    /\ output_data[i].key = "key_issues_to_review"
                    /\ output_data[i].value = PyList(<<>>)

----------------------------------------------------------------------------
(* Claims about ReviewCommand._convert_to_markdown, checked under          *)
(* SpecMarkdown.                                                           *)

\* the payloads with the same key/value pairs as the one rendered
Reorderings ==
    {q \in Payloads : Len(q) = Len(review_payload) /\ Range(q) = Range(review_payload)}

C17_Empty(value) ==
    value = PyNone \/ value = PyStr(<<>>) \/ (value.t = "list" /\ Len(value.items) + Len(value.comps) = 0)

C17_NoMajorIssuesRow ==
    <<"<", "t", "r", ">", "<", "t", "d", ">", "{zap}", "&", "n", "b", "s", "p",
      ";", "<", "s", "t", "r", "o", "n", "g", ">", "N", "o", " ", "m", "a", "j",
      "o", "r", " ", "i", "s", "s", "u", "e", "s", " ", "d", "e", "t", "e", "c",
      "t", "e", "d", "<", "/", "s", "t", "r", "o", "n", "g", ">", "<", "/", "t",
      "d", ">", "<", "/", "t", "r", ">", "\n">>

C17_Header ==
    <<"#", "#", " ", "M", "R", " ", "R", "e", "v", "i", "e", "w", "e", "r", " ",
      "G", "u", "i", "d", "e", " ", "{magnifier}", "\n", "\n", "H", "e", "r",
      "e", " ", "a", "r", "e", " ", "s", "o", "m", "e", " ", "k", "e", "y", " ",
      "o", "b", "s", "e", "r", "v", "a", "t", "i", "o", "n", "s", " ", "t", "o",
      " ", "a", "i", "d", " ", "t", "h", "e", " ", "r", "e", "v", "i", "e", "w",
      " ", "p", "r", "o", "c", "e", "s", "s", ":", "\n", "\n", "<", "t", "a",
      "b", "l", "e", ">", "\n">>

C17_Footer == <<"<", "/", "t", "a", "b", "l", "e", ">", "\n">>

\* C17: a field with an empty value adds no row, except key_issues_to_review,
\* whose empty value adds the one row 'No major issues detected'; the text is
\* the guide header, then what the fields present added, in their order, and
\* nothing for any other field, and the returned report ends with the closing
\* '</table>'.
C17_EmptyFieldsAddNoRow ==
    /\ \A i \in 1..Len(added) :
          C17_Empty(review_payload[i].value) =>
              added[i] = IF review_payload[i].key = N_key_issues
                         THEN C17_NoMajorIssuesRow
                         ELSE <<>>
    /\ mpc = "loop" =>
          /\ Len(added) = payload_no
          /\ markdown_text = C17_Header \o Concat(added)
    /\ mpc = "returned" =>
          /\ Len(added) = Len(review_payload)
          /\ markdown_text = C17_Header \o Concat(added) \o C17_Footer

\* C17 witness: a report was returned for an output whose score is the empty
\* string and whose key_issues_to_review is the empty list; it is the header,
\* the 'No major issues detected' row and the footer.
C17_Witness ==
    /\ mpc = "returned"
    /\ review_payload = <<[key |-> N_score, value |-> PyStr(<<>>)],
                          [key |-> N_key_issues, value |-> PyList(<<>>)]>>
    /\ markdown_text = C17_Header \o C17_NoMajorIssuesRow \o C17_Footer

C18_CompactRow(key) ==
    IF key = N_tests
    THEN <<"<", "t", "r", ">", "<", "t", "d", ">", "{test_tube}", "&", "n", "b", "s",
          "p", ";", "<", "s", "t", "r", "o", "n", "g", ">", "N", "o", " ", "r", "e",
          "l", "e", "v", "a", "n", "t", " ", "t", "e", "s", "t", "s", "<", "/", "s",
          "t", "r", "o", "n", "g", ">", "<", "/", "t", "d", ">", "<", "/", "t", "r",
          ">", "\n">>
    ELSE <<"<", "t", "r", ">", "<", "t", "d", ">", "{lock}", "&", "n", "b", "s", "p",
          ";", "<", "s", "t", "r", "o", "n", "g", ">", "N", "o", " ", "s", "e", "c",
          "u", "r", "i", "t", "y", " ", "c", "o", "n", "c", "e", "r", "n", "s", " ",
          "i", "d", "e", "n", "t", "i", "f", "i", "e", "d", "<", "/", "s", "t", "r",
          "o", "n", "g", ">", "<", "/", "t", "d", ">", "<", "/", "t", "r", ">", "\n">>

\* the row holds the text, as it is or with its header emphasized
C18_HoldsText(row, t) == Contains(row, t) \/ Contains(row, emphasize_header(t))

\* C18: for relevant_tests and security_concerns, a value equal to 'no'
\* ignoring case adds the compact row, and every other non-empty str adds a
\* row that contains the value's text.
C18_NoIsCompactElseFullContent ==
    \A i \in 1..Len(added) :
        (/\ review_payload[i].key \in {N_tests, N_security}
         /\ review_payload[i].value.t = "str"
         /\ review_payload[i].value.s # <<>>)
        => IF Lower(review_payload[i].value.s) = S_no
           THEN added[i] = C18_CompactRow(review_payload[i].key)
           ELSE /\ added[i] # C18_CompactRow(review_payload[i].key)
                /\ C18_HoldsText(added[i], review_payload[i].value.s)

C19_Bar(n) == [k \in 1..5 |-> IF k <= n THEN "{blue_circle}" ELSE "{white_circle}"]

C19_Row(n) ==
    <<"<", "t", "r", ">", "<", "t", "d", ">", "{stopwatch}", "&", "n", "b", "s",
      "p", ";", "<", "s", "t", "r", "o", "n", "g", ">", "E", "s", "t", "i", "m",
      "a", "t", "e", "d", " ", "e", "f", "f", "o", "r", "t", " ", "t", "o", " ",
      "r", "e", "v", "i", "e", "w", "<", "/", "s", "t", "r", "o", "n", "g", ">",
      ":", " ">>
        \o <<CHOOSE d \in Digits : StrToInt(<<d>>) = n>> \o <<" ">> \o C19_Bar(n)
        \o <<"<", "/", "t", "d", ">", "<", "/", "t", "r", ">", "\n">>

\* C19: an int v of estimated_effort_to_review adds the row with the number
\* n = min(5, max(1, v)) and a bar of n filled segments followed by 5 - n
\* empty ones.
C19_EffortClampedBar ==
    \A i \in 1..Len(added) :
        (review_payload[i].key = N_effort /\ review_payload[i].value.t = "int")
        => added[i] = C19_Row(IF review_payload[i].value.n < 1 THEN 1
                              ELSE IF review_payload[i].value.n > 5 THEN 5
                              ELSE review_payload[i].value.n)

\* C19 witness: the effort 0 was rendered as 1 with one filled segment, in a
\* report that was returned.
C19_Witness ==
    /\ mpc = "returned"
    /\ \E i \in 1..Len(added) :
          /\ review_payload[i] = [key |-> N_effort, value |-> PyInt(0)]
          /\ added[i] = C19_Row(1)
          /\ Contains(markdown_text, <<"1", " ", "{blue_circle}", "{white_circle}">>)

----------------------------------------------------------------------------
(* Claims about _get_snippet, checked under SpecSnippet.                   *)

\* the lines of the file on the branch
C20_FileLines == IF repo_file.some THEN Splitlines(repo_file.val) ELSE <<>>

\* a line under its own 1-indexed number
C20_Labelled(n) == Rjust(IntToStr(n), 5) \o <<" ">> \o C20_FileLines[n]

C20_Last == IF snip_end <= Len(C20_FileLines) THEN snip_end ELSE Len(C20_FileLines)

\* C20: with a path, a fetched file of L lines and 1 <= start <= end, the
\* snippet is the lines start..min(end, L), each under its own number; with
\* start > L, an empty path or a failed fetch it is empty; no read is outside
\* the file and nothing is raised.
C20_SnippetIsTheSlice ==
    /\ spc # "raised"
    /\ \A i \in reads : 0 <= i /\ i < Len(C20_FileLines)
    /\ spc = "returned" =>
          /\ (file_path # <<>> /\ repo_file.some /\ 1 <= snip_start /\ snip_start <= snip_end)
                 => snippet = Join(NL, [k \in 1..(C20_Last - snip_start + 1) |->
                                           C20_Labelled(snip_start + k - 1)])
          /\ (file_path = <<>> \/ ~repo_file.some \/ snip_start > Len(C20_FileLines))
                 => snippet = <<>>

\* C20 witness: of a file of three lines, start 2 and an end past the file
\* gave the lines 2 and 3 under their numbers.
C20_Witness ==
    /\ spc = "returned"
    /\ Len(C20_FileLines) = 3
    /\ snip_start = 2
    /\ snip_end = 5
    /\ reads = {1, 2}
    /\ snippet = C20_Labelled(2) \o NL \o C20_Labelled(3)

----------------------------------------------------------------------------
(* Claims about handle_note_event and handle_merge_request_event, checked   *)
(* under SpecHandlers.                                                     *)

\* the last agent run of the handler raised
AgentRaised == agent_calls # <<>> /\ agent_calls[Len(agent_calls)].outcome = "raised"

C22_ParseErrorOf(cmd) ==
    IF cmd = <<>> THEN <<"E", "m", "p", "t", "y", " ", "c", "o", "m", "m", "a", "n", "d", ".">> ELSE <<"U", "n", "k", "n", "o", "w", "n", " ", "c", "o", "m", "m", "a", "n", "d",
          ":", " ">> \o cmd

\* C22: when the note "@<bot>/<text>" carries an empty or unknown command, the
\* reply the handler posts carries the parser's or dispatcher's
\* CommandParseError message
C22_ReplyCarriesParseError ==
    (/\ event = "note" /\ hpc = "returned"
     /\ is_command
     /\ ~IsKnownCommand(input_command)) =>
        /\ Len(replies) = 1
        /\ Contains(replies[1], C22_ParseErrorOf(input_command))

C25_WitnessNote ==
    /\ event = "note" /\ hpc = "returned"
    /\ ~AgentRaised /\ agent_calls # <<>>
    /\ wait_note = "deleted"
    /\ replies = <<<<"L", "G", "T", "M">>>>

\* the bot is in a list of reviewers
C27_BotIn(l) == \E i \in 1..Len(l) : l[i].id = BotUserId
\* the bot is in a list of reviewers with re_requested set
C27_BotReRequestedIn(l) == \E i \in 1..Len(l) : l[i].id = BotUserId /\ l[i].re_requested
\* the payload adds the bot as a reviewer
C27_NewReviewer ==
    /\ ~changes.empty
    /\ changes.reviewers.t = "dict"
    /\ C27_BotIn(changes.reviewers.current)
    /\ ~C27_BotIn(changes.reviewers.previous)
\* the payload is an update that re-requests a review from the bot
C27_ReRequest ==
    /\ action = Some(S_update)
    /\ ~changes.empty
    /\ \/ changes.reviewers.t = "dict" /\ C27_BotReRequestedIn(changes.reviewers.current)
       \/ changes.reviewers.t = "list" /\ C27_BotReRequestedIn(changes.reviewers.items)
C27_ReviewStarted ==
    /\ gitlab_writes # <<>> /\ gitlab_writes[1] = [op |-> "create", body |-> S_wait_mr]
    /\ agent_calls # <<>>

\* C27: handle_merge_request_event has started a review when it ends if and
\* only if the payload adds the bot as a reviewer or is an update that
\* re-requests a review from the bot; otherwise it made no GitLab write and no
\* agent call
C27_ReviewIffRequested ==
    (event = "merge_request" /\ action.some /\ hpc \in {"returned", "raised"}) =>
        /\ C27_ReviewStarted <=> (C27_NewReviewer \/ C27_ReRequest)
        /\ ~(C27_NewReviewer \/ C27_ReRequest) => gitlab_writes = <<>> /\ agent_calls = <<>>

\* the notes of the discussion that precede the note being answered
C28_Preceding == SubSeq(notes, 1, Len(notes) - 1)
\* the most recent max_chat_history of them, oldest first
C28_Recent ==
    IF Len(C28_Preceding) <= max_chat_history THEN C28_Preceding
    ELSE SubSeq(C28_Preceding, Len(C28_Preceding) - max_chat_history + 1, Len(C28_Preceding))

\* C28: the message history handed to SmartAgent.run for a note without
\* command syntax is the most recent notes that precede the note being
\* answered, at most max_chat_history of them, oldest first
C28_HistoryIsChronological ==
    \A i \in 1..Len(agent_calls) :
        (event = "note" /\ agent_calls[i].agent = "SmartAgent") =>
            /\ Len(agent_calls[i].message_history) = Len(C28_Recent)
            /\ \A k \in 1..Len(C28_Recent) :
                  agent_calls[i].message_history[k].content = C28_Recent[k]

----------------------------------------------------------------------------
(* Claims about webhook, checked under SpecWebhook.                        *)

\* the delivery carries a known bot's own token
C23_Authorized == BotFound /\ ~TokenRejected

\* C23: a finished delivery has produced exactly one response: 404 for an
\* unknown bot and 401 for a missing or wrong token, both without a handler
\* call; 204 for an event type without handler; 200 when the handler completes
\* (a note on an issue makes handle_note_event return at once); and 500 only
\* when a handler was entered and raised
C23_OneDefiniteResponse ==
    wpc = "done" =>
        /\ responses = 1
        /\ status_code \in {200, 204, 401, 404, 500}
        /\ ~BotFound => status_code = 404 /\ handler_calls = <<>>
        /\ (BotFound /\ TokenRejected) => status_code = 401 /\ handler_calls = <<>>
        /\ (C23_Authorized /\ event_type \notin {"Merge Request Hook", "Note Hook"}) =>
              status_code = 204 /\ handler_calls = <<>>
        /\ (C23_Authorized /\ event_type = "Note Hook" /\ request_body = "note on issue") =>
              status_code = 200
        /\ status_code = 500 =>
              handler_calls # <<>> /\ handler_calls[Len(handler_calls)].entered

----------------------------------------------------------------------------
(* Claims about SmartAgent.run and its history record, checked under       *)
(* SpecRun.                                                                *)

\* an exception was caught after the history record had been created
C26_FailedAfterStart == caught.some /\ history_id # None
\* the agent returned a response
C26_AgentSucceeded == run_pc \in {"ran", "returned"}
\* the record starts pending and changes at most once, to completed or failed
C26_StatusOnce ==
    /\ status_log \in {<<>>, <<"pending">>, <<"pending", "completed">>, <<"pending", "failed">>}
    /\ history_record.exists <=> status_log # <<>>
    /\ history_record.exists => history_record.status = status_log[Len(status_log)]
\* completed only after a successful agent run, with error_message cleared;
\* failed only after an exception, with its text, and run raises it again
C26_StatusMeaning ==
    /\ history_record.status = "completed" =>
          C26_AgentSucceeded /\ history_record.error_message = NoneStr
    /\ history_record.status = "failed" =>
          /\ C26_FailedAfterStart
          /\ history_record.error_message = caught
          /\ run_raised = caught
\* no record without a fetched merge request; the response is returned
\* whatever becomes of the completed update
C26_NoRecordAndReturn ==
    /\ (caught.some /\ history_id = None) => ~history_record.exists /\ run_pc = "raised"
    /\ run_pc = "returned" => run_output.some /\ run_output.val \in SmartOutputs
    /\ run_pc = "raised" => run_raised.some /\ ~run_output.some

\* C26 as stated: the record starts pending and changes status at most once,
\* to completed with error_message cleared after a successful agent run, or
\* to failed with the exception's text whenever an exception occurs after
\* the record was created, and then that exception is raised again; no
\* record without a fetched merge request; run returns the output whatever
\* becomes of the completed update
C26_StatusChangesOnce ==
    /\ C26_StatusOnce
    /\ C26_StatusMeaning
    /\ C26_NoRecordAndReturn
    /\ (C26_FailedAfterStart /\ run_pc = "raised") =>
          /\ history_record.status = "failed"
          /\ history_record.error_message = caught
          /\ run_raised = caught

\* what holds of C26: as above, where an exception after the record's
\* creation makes the record failed and is raised again if the failed update
\* is written; if that write raises, the record stays pending and the
\* write's exception leaves run
C26_StatusChangesOnceIfWritten ==
    /\ C26_StatusOnce
    /\ C26_StatusMeaning
    /\ C26_NoRecordAndReturn
    /\ (C26_FailedAfterStart /\ run_pc = "raised" /\ ~update_failed) =>
          /\ history_record.status = "failed"
          /\ history_record.error_message = caught
          /\ run_raised = caught
    /\ (C26_FailedAfterStart /\ run_pc = "raised" /\ update_failed) =>
          /\ history_record.status = "pending"
          /\ run_raised = Some(S_mongo_error)
    /\ (run_pc = "returned" /\ history_record.status = "pending") =>
          history_record.error_message = NoneStr

----------------------------------------------------------------------------
(* Claims about the system prompts and the output models, checked under    *)
(* SpecPrompt.                                                             *)

\* the class whose fields the prompt asks for: Review (which the prompt wraps
\* in MRReview.review) and MRDescription
C24_RootClass == IF prompt_command = "review" THEN "Review" ELSE "MRDescription"
\* the fields the rendered prompt declares for a class
C24_Declared(cls) == {i \in 1..Len(rendered) : rendered[i].class = cls}
\* the output fields the rendered prompt tells the LLM to return, nested
\* fields as <<field, nested field>>
C24_PromptFields ==
    {<<rendered[i].name>> : i \in C24_Declared(C24_RootClass)}
    \cup UNION {{<<rendered[i].name, rendered[k].name>> : k \in C24_Declared(rendered[i].of)} :
                  i \in {n \in C24_Declared(C24_RootClass) : rendered[n].of # ""}}
\* the fields of the output model, nested fields likewise
C24_ModelFields ==
    {<<output_model[i].name>> : i \in 1..Len(output_model)}
    \cup UNION {{<<output_model[i].name, ClassFields[output_model[i].of][k]>> :
                    k \in 1..Len(ClassFields[output_model[i].of])} :
                  i \in {n \in 1..Len(output_model) : output_model[n].of # ""}}

\* C24: for every flag combination of Review and Describe, once the prompt is
\* rendered and the output model built, the prompt asks for exactly the
\* fields of the model, nested fields included
C24_PromptMatchesModel ==
    tpc = "built" => C24_PromptFields = C24_ModelFields

----------------------------------------------------------------------------
(* Claims about refresh_token, checked under SpecRefresh.                  *)

\* the request got a new token pair
C29_Refreshed(r) == qpc[r] = "done" /\ rf_out[r].status = 200

\* C29: a refresh token is single-use: of the requests that present the same
\* token at most one obtains a new token pair; once a request has obtained
\* one, the session of its token is gone; and a finished request has a new
\* pair or an error status, never an empty result
C29_SingleUse ==
    /\ \A r1 \in Requests, r2 \in Requests :
          (r1 # r2 /\ rf_in[r1] = rf_in[r2]) => ~(C29_Refreshed(r1) /\ C29_Refreshed(r2))
    /\ \A r \in Requests : C29_Refreshed(r) => ValidRows(rf_in[r]) = {}
    /\ \A r \in Requests :
          qpc[r] = "done" =>
              \/ rf_out[r].status = 200 /\ rf_out[r].refresh_token \in TokenValues
              \/ rf_out[r].status \in {401, 500}

----------------------------------------------------------------------------
(* Claims about CacheService, checked under SpecCache.                     *)

\* the entry of the key of the last call, as last stored
C30_Entry == last_set[cache_op.key]

\* that entry had not expired when the call was made: it was stored without
\* a TTL, or its TTL had not run out
C30_Live ==
    /\ C30_Entry.some
    /\ \/ C30_Entry.ttl_seconds = None
       \/ cache_op.at < C30_Entry.at + C30_Entry.ttl_seconds

\* C30: get(key) returns the value most recently stored by set(key, ...)
\* while the entry has been neither deleted nor expired, an entry stored
\* without a TTL never expiring; it returns None for a key that is absent,
\* deleted or past its expiry; and the table holds at most one row per key
C30_GetReturnsStored ==
    /\ (cache_op.op = "get" /\ C30_Entry.ttl_seconds # 0) =>
          /\ cache_op.raised = ""
          /\ cache_op.result = IF C30_Live THEN Some(C30_Entry.value) ELSE NoneStr
    /\ \A key \in CacheKeys : Cardinality({row \in cache_rows : row.key = key}) <= 1

\* what holds of C30: the same for the entries stored with a TTL
C30_GetReturnsStoredWithTtl ==
    /\ (cache_op.op = "get" /\ C30_Entry.ttl_seconds \notin {0, None}) =>
          /\ cache_op.raised = ""
          /\ cache_op.result = IF C30_Live THEN Some(C30_Entry.value) ELSE NoneStr
    /\ (cache_op.op = "get" /\ ~C30_Entry.some) => cache_op.result = NoneStr
    /\ \A key \in CacheKeys : Cardinality({row \in cache_rows : row.key = key}) <= 1

====
